---- MODULE Spec2Model ----
(***************************************************************************)
(* Model of the to-do / reminder bot: the TodoDatabase repository          *)
(* (database.py), the reminder_checker sweep and its delivery coroutines   *)
(* (bot.py) and the command handlers that touch the store                  *)
(* (todo_commands.py).                                                     *)
(*                                                                         *)
(* Time is an integer number of seconds.  A Python dict that lives in a    *)
(* stored list carries a field `key`: it stands for the identity of the    *)
(* dict object, which the code shares between the cached list, the         *)
(* Document's list and the delivery coroutines of a sweep.                 *)
(***************************************************************************)
EXTENDS Integers, Sequences, FiniteSets, TLC

VARIABLES
    now,            \* datetime.now(), in seconds
    fernet,         \* TodoDatabase.fernet is set (ENABLE_ENCRYPTION)
    tasks,          \* self.data[<pseudonym>]: pseudonym -> list of task dicts
    reminders,      \* self.data['reminders']: pseudonym -> list of reminder dicts
    user_mapping,   \* self.data['user_mapping']: pseudonym -> encrypted user id
    cache,          \* self._cache: pseudonym -> list of task dicts
    file,           \* the database file: <<>> when missing, <<content>> otherwise
    last_save,      \* self._last_save
    save_pending,   \* self._save_pending
    disk_ok,        \* environment: the next write of the file succeeds
    pc,             \* position of reminder_checker: "idle", "reminders", "deadlines"
    flights,        \* the delivery coroutines handed to asyncio.gather
    due,            \* reminder_checker's due_reminders (latest get_due_reminders)
    upcoming,       \* reminder_checker's upcoming_deadlines (latest get_upcoming_deadlines)
    nextKey,        \* next fresh object identity
    last,           \* the latest repository call: its name and its result
    ghost           \* history kept for the properties and the bounds of the behaviours

vars == <<now, fernet, tasks, reminders, user_mapping, cache, file, last_save,
          save_pending, disk_ok, pc, flights, due, upcoming, nextKey, last, ghost>>

docVars   == <<tasks, reminders, user_mapping>>
saveVars  == <<file, last_save, save_pending>>
sweepVars == <<pc, flights, due, upcoming>>

----------------------------------------------------------------------------
(* Program constants *)

MAX_TASKS_PER_USER == 50
TaskCap == 50
MAX_REMINDERS_PER_USER == 20
DATABASE_SAVE_DEBOUNCE == 30
MAX_CONCURRENT_REMINDERS == 10
DEADLINE_REMINDER_HOURS == 12
HourSeconds == 3600
MinuteSeconds == 60
DaySeconds == 86400
MonthDays == 30
YearDays == 365
EpochYear == 2026

(* Bounds of the model *)

MaxKeys == 2          \* dicts created in one behaviour of the sweep specifications
MaxTaskKeys == 3      \* dicts created in one behaviour of SpecTasks
CapKeys == 54         \* dicts created in one behaviour of SpecCap
FanKeys == 11         \* dicts created in one behaviour of SpecFan
MaxTicks == 2         \* clock steps in one behaviour
MaxCrashes == 1       \* restarts in one behaviour of SpecCrash
CacheKeys == 1        \* dicts created in one behaviour of SpecCache

Users == {"u1", "u2"}

----------------------------------------------------------------------------
(* Values *)

None_ == [none |-> TRUE]

\* datetime.isoformat() / datetime.fromisoformat()
IsoFormat(t) == [iso |-> t]
FromIsoFormat(s) == s.iso

\* a pseudonym that is the same for every user
HashUserIdColliding(user_id) == <<"hmac", "u1">>

\* TodoDatabase._hash_user_id
HashUserId(user_id) == <<"hmac", user_id>>

Pseudonyms == {HashUserId(u) : u \in Users}

\* TodoDatabase._encrypt_data / _decrypt_data.  The except branches (return the
\* argument) are taken for an argument that is no token of this key; the
\* values of the model are produced by EncryptData under the same setting.
\* A text is a Fernet token exactly when encryption produced it.
IsToken(e) == e[1] = "gAAAAA"

\* a decryption that needs no key
DecryptDataAlways(e) == IF IsToken(e) THEN e[2] ELSE e

\* a decryption that returns its argument
DecryptDataNever(e) == e

EncryptData(d) == IF fernet THEN <<"gAAAAA", d>> ELSE d
DecryptData(e) == IF fernet /\ IsToken(e) THEN e[2] ELSE e

\* json.dumps / json.loads of the Document; json.loads raises for a text
\* that json.dumps did not produce
JsonDumps(doc) == <<"json", doc>>
IsJson(text) == text[1] = "json"
JsonLoads(text) == text[2]

\* file contents that no save wrote: only white space, neither a token nor
\* JSON, and a file whose open() or read() raises
BlankText == <<"blank", " ">>
GarbageText == <<"garbage", "?">>
Unreadable == <<"unreadable", "">>

Document == [tasks |-> tasks, user_mapping |-> user_mapping, reminders |-> reminders]
DocumentNext == [tasks |-> tasks', user_mapping |-> user_mapping', reminders |-> reminders']
EmptyDocument == [tasks |-> << >>, user_mapping |-> << >>, reminders |-> << >>]

Min(a, b) == IF a <= b THEN a ELSE b

\* a del that removes nothing
DelNothing(d, k) == d

\* dict helpers: d[k] = v, del d[k], d.get(k, [])
Put(d, k, v) == (k :> v) @@ d
Del(d, k) == [x \in (DOMAIN d) \ {k} |-> d[x]]
GetList(d, k) == IF k \in DOMAIN d THEN d[k] ELSE << >>

\* [x for x in seq if Keep(x)]
Filter(seq, Keep(_)) == SelectSeq(seq, Keep)

\* a renumbering that leaves the ids as they were
RenumberKeepingIds(seq) == seq

\* a renumbering that starts at 0
RenumberFromZero(seq) == [i \in 1..Len(seq) |-> [seq[i] EXCEPT !.id = i - 1]]

\* for i, item in enumerate(seq, 1): item['id'] = i
Renumber(seq) == [i \in 1..Len(seq) |-> [seq[i] EXCEPT !.id = i]]

KeysOf(seq) == {seq[i].key : i \in 1..Len(seq)}

\* history counters saturate
Count(f, k) == IF k \in DOMAIN f THEN f[k] ELSE 0
Bump(f, k) == Put(f, k, Min(Count(f, k) + 1, MaxCrashes + 2))

----------------------------------------------------------------------------
(* Persistence *)

\* an early return that ignores the force argument
DebouncedIgnoringForce(force) == (now - last_save) < DATABASE_SAVE_DEBOUNCE

\* the condition of _save_data's early return
Debounced(force) == ~force /\ (now - last_save) < DATABASE_SAVE_DEBOUNCE

\* TodoDatabase._save_data(force), run after the Document became DocumentNext
SaveData(force) ==
    IF Debounced(force)
    THEN /\ save_pending' = TRUE
         /\ UNCHANGED <<file, last_save>>
    ELSE IF disk_ok
         THEN /\ file' = <<EncryptData(JsonDumps(DocumentNext))>>
              /\ last_save' = now
              /\ save_pending' = FALSE
         ELSE UNCHANGED <<file, last_save, save_pending>>

\* TodoDatabase._load_data
LoadData ==
    IF file = << >> THEN EmptyDocument
    ELSE IF file[1] = Unreadable THEN EmptyDocument
    ELSE IF file[1] = BlankText THEN EmptyDocument
    ELSE LET decrypted_content == DecryptData(file[1])
         IN IF IsJson(decrypted_content) THEN JsonLoads(decrypted_content)
            ELSE EmptyDocument

\* the result of a repository call, kept when the behaviour is traced
NoCall == [op |-> "none", ret |-> 0]
Called(op, ret) == last' = IF ghost.trace THEN [op |-> op, ret |-> ret] ELSE NoCall

----------------------------------------------------------------------------
(* References held by suspended coroutines: a delivery coroutine holds the   *)
(* reminder / task dict, and reads dict['id'] when it resumes.  A dict that  *)
(* is still in a stored list has been renumbered in place; a dict that was   *)
(* filtered out keeps the id it had.                                         *)

IdOfKey(lists, k, old) ==
    IF \E h \in DOMAIN lists : \E i \in 1..Len(lists[h]) : lists[h][i].key = k
    THEN LET h == CHOOSE h \in DOMAIN lists : \E i \in 1..Len(lists[h]) : lists[h][i].key = k
             i == CHOOSE i \in 1..Len(lists[h]) : lists[h][i].key = k
         IN lists[h][i].id
    ELSE old

RefreshFlights(fl, ts, rs) ==
    [i \in 1..Len(fl) |->
        [fl[i] EXCEPT !.id = IF fl[i].kind = "reminder"
                             THEN IdOfKey(rs, fl[i].key, @)
                             ELSE IdOfKey(ts, fl[i].key, @)]]

----------------------------------------------------------------------------
(* Task operations of TodoDatabase.  A task dict is modelled by the fields  *)
(* the operations read: task_hash, created_at and completed_at are written  *)
(* and never read by the repository or the sweep.                           *)

\* a cache miss that caches an empty list
CacheAfterGetEmpty(h) ==
    IF h \in DOMAIN cache THEN cache ELSE Put(cache, h, << >>)

\* _get_user_tasks: the cache after the call
CacheAfterGet(h) ==
    IF h \in DOMAIN cache THEN cache ELSE Put(cache, h, GetList(tasks, h))

\* a task limit that lets one more task in
AtTaskLimitOffByOne(ts) == Len(ts) > TaskCap

\* the condition of add_task's early return
AtTaskLimit(ts) == Len(ts) >= TaskCap

NewTask(ts, task, deadline) ==
    [key |-> nextKey, id |-> Len(ts) + 1, task_encrypted |-> EncryptData(task),
     completed |-> FALSE, deadline |-> deadline,
     reminder_sent |-> FALSE, plain |-> FALSE]

\* add_task(user_id, task, deadline)
AddTask(u, task, deadline) ==
    LET h  == HashUserId(u)
        ts == CacheAfterGet(h)[h]
    IN /\ UNCHANGED <<now, fernet, reminders, disk_ok, pc, flights, due, upcoming, ghost>>
       /\ user_mapping' = Put(user_mapping, h, EncryptData(u))
       /\ IF AtTaskLimit(ts)
          THEN /\ cache' = CacheAfterGet(h)
               /\ Called("add_task", FALSE)
               /\ UNCHANGED <<tasks, nextKey, file, last_save, save_pending>>
          ELSE LET ts2 == Append(ts, NewTask(ts, task, deadline))
               IN /\ tasks' = Put(tasks, h, ts2)
                  /\ cache' = Put(cache, h, ts2)
                  /\ nextKey' = nextKey + 1
                  /\ Called("add_task", TRUE)
                  /\ SaveData(FALSE)

\* a search that ignores the state of the task
FirstMatchAnyState(ts, task_id, completed) ==
    {i \in 1..Len(ts) : ts[i].id = task_id /\ \A j \in 1..(i-1) : ts[j].id # task_id}

\* for task in tasks: if task['id'] == task_id and <state>: first match
FirstMatch(ts, task_id, completed) ==
    {i \in 1..Len(ts) : /\ ts[i].id = task_id /\ ts[i].completed = completed
                        /\ \A j \in 1..(i-1) : ~(ts[j].id = task_id /\ ts[j].completed = completed)}

\* complete_task(user_id, task_id)
CompleteTask(u, task_id) ==
    LET h  == HashUserId(u)
        ts == CacheAfterGet(h)[h]
        m  == FirstMatch(ts, task_id, FALSE)
    IN /\ UNCHANGED <<now, fernet, reminders, user_mapping, disk_ok, pc, flights, due,
                      upcoming, nextKey, ghost>>
       /\ IF m # {}
          THEN LET i   == CHOOSE i \in m : TRUE
                   ts2 == [ts EXCEPT ![i].completed = TRUE]
               IN /\ tasks' = Put(tasks, h, ts2)
                  /\ cache' = Put(cache, h, ts2)
                  /\ Called("complete_task", TRUE)
                  /\ SaveData(FALSE)
          ELSE /\ cache' = CacheAfterGet(h)
               /\ Called("complete_task", FALSE)
               /\ UNCHANGED <<tasks, file, last_save, save_pending>>

\* uncomplete_task(user_id, task_id)
UncompleteTask(u, task_id) ==
    LET h  == HashUserId(u)
        ts == CacheAfterGet(h)[h]
        m  == FirstMatch(ts, task_id, TRUE)
    IN /\ UNCHANGED <<now, fernet, reminders, user_mapping, disk_ok, pc, flights, due,
                      upcoming, nextKey, ghost>>
       /\ IF m # {}
          THEN LET i   == CHOOSE i \in m : TRUE
                   ts2 == [ts EXCEPT ![i].completed = FALSE]
               IN /\ tasks' = Put(tasks, h, ts2)
                  /\ cache' = Put(cache, h, ts2)
                  /\ Called("uncomplete_task", TRUE)
                  /\ SaveData(FALSE)
          ELSE /\ cache' = CacheAfterGet(h)
               /\ Called("uncomplete_task", FALSE)
               /\ UNCHANGED <<tasks, file, last_save, save_pending>>

\* remove_task(user_id, task_id)
RemoveTask(u, task_id) ==
    LET h  == HashUserId(u)
        ts == CacheAfterGet(h)[h]
        Keep(t) == t.id # task_id
        filtered_tasks == Filter(ts, Keep)
    IN /\ UNCHANGED <<now, fernet, reminders, user_mapping, disk_ok, pc, due,
                      upcoming, nextKey, ghost>>
       /\ IF Len(filtered_tasks) = Len(ts)
          THEN /\ cache' = CacheAfterGet(h)
               /\ Called("remove_task", FALSE)
               /\ UNCHANGED <<tasks, flights, file, last_save, save_pending>>
          ELSE LET ts2 == Renumber(filtered_tasks)
               IN /\ tasks' = Put(tasks, h, ts2)
                  /\ cache' = Put(cache, h, ts2)
                  /\ flights' = RefreshFlights(flights, tasks', reminders)
                  /\ Called("remove_task", TRUE)
                  /\ SaveData(FALSE)

\* a clear_completed_tasks that returns the number of the tasks it keeps
ClearCompletedTasksCountingKept(u) ==
    LET h  == HashUserId(u)
        ts == CacheAfterGet(h)[h]
        NotCompleted(t) == ~t.completed
        remaining_tasks == Renumber(Filter(ts, NotCompleted))
    IN /\ UNCHANGED <<now, fernet, reminders, user_mapping, disk_ok, pc, due,
                      upcoming, nextKey, ghost>>
       /\ tasks' = Put(tasks, h, remaining_tasks)
       /\ cache' = Put(cache, h, remaining_tasks)
       /\ flights' = RefreshFlights(flights, tasks', reminders)
       /\ Called("clear_completed_tasks", Len(remaining_tasks))
       /\ SaveData(FALSE)

\* clear_completed_tasks(user_id)
ClearCompletedTasks(u) ==
    LET h  == HashUserId(u)
        ts == CacheAfterGet(h)[h]
        IsCompleted(t) == t.completed
        NotCompleted(t) == ~t.completed
        completed_tasks == Filter(ts, IsCompleted)
        remaining_tasks == Renumber(Filter(ts, NotCompleted))
    IN /\ UNCHANGED <<now, fernet, reminders, user_mapping, disk_ok, pc, due,
                      upcoming, nextKey, ghost>>
       /\ tasks' = Put(tasks, h, remaining_tasks)
       /\ cache' = Put(cache, h, remaining_tasks)
       /\ flights' = RefreshFlights(flights, tasks', reminders)
       /\ Called("clear_completed_tasks", Len(completed_tasks))
       /\ SaveData(FALSE)

\* clear_all_tasks(user_id)
ClearAllTasks(u) ==
    LET h  == HashUserId(u)
        ts == CacheAfterGet(h)[h]
    IN /\ UNCHANGED <<now, fernet, reminders, disk_ok, pc, flights, due,
                      upcoming, nextKey, ghost>>
       /\ tasks' = Del(tasks, h)
       /\ cache' = Del(cache, h)
       /\ user_mapping' = Del(user_mapping, h)
       /\ Called("clear_all_tasks", Len(ts))
       /\ SaveData(FALSE)

\* force_save()
ForceSave ==
    /\ UNCHANGED <<now, fernet, tasks, reminders, user_mapping, cache, disk_ok, pc,
                   flights, due, upcoming, nextKey, ghost>>
    /\ Called("force_save", 0)
    /\ SaveData(TRUE)

----------------------------------------------------------------------------
(* Reminder operations of TodoDatabase *)

\* a reminder limit that lets one more reminder in
AtReminderLimitOffByOne(rs) == Len(rs) > MAX_REMINDERS_PER_USER

\* the condition of add_reminder's early return
AtReminderLimit(rs) == Len(rs) >= MAX_REMINDERS_PER_USER

\* a reminder numbered from the counter it shares with the tasks
NewReminderSharedCounter(rs, message, reminder_time) ==
    [key |-> nextKey, id |-> nextKey, message_encrypted |-> EncryptData(message),
     reminder_time |-> reminder_time, sent |-> FALSE, plain |-> FALSE]

NewReminder(rs, message, reminder_time) ==
    [key |-> nextKey, id |-> Len(rs) + 1, message_encrypted |-> EncryptData(message),
     reminder_time |-> reminder_time, sent |-> FALSE, plain |-> FALSE]

\* add_reminder(user_id, message, reminder_time)
AddReminder(u, message, reminder_time) ==
    LET h   == HashUserId(u)
        rem == IF h \in DOMAIN reminders THEN reminders ELSE Put(reminders, h, << >>)
    IN /\ UNCHANGED <<now, fernet, tasks, cache, disk_ok, pc, flights, due, upcoming, ghost>>
       /\ user_mapping' = Put(user_mapping, h, EncryptData(u))
       /\ IF AtReminderLimit(rem[h])
          THEN /\ reminders' = rem
               /\ Called("add_reminder", FALSE)
               /\ UNCHANGED <<nextKey, file, last_save, save_pending>>
          ELSE /\ reminders' = Put(rem, h, Append(rem[h], NewReminder(rem[h], message, reminder_time)))
               /\ nextKey' = nextKey + 1
               /\ Called("add_reminder", TRUE)
               /\ SaveData(FALSE)

\* delete_reminder(user_id, reminder_id)
DeleteReminder(u, reminder_id) ==
    LET h  == HashUserId(u)
        rs == GetList(reminders, h)
        Keep(r) == r.id # reminder_id
        filtered_reminders == Filter(rs, Keep)
    IN /\ UNCHANGED <<now, fernet, tasks, user_mapping, cache, disk_ok, pc, due,
                      upcoming, nextKey, ghost>>
       /\ IF Len(filtered_reminders) = Len(rs)
          THEN /\ Called("delete_reminder", FALSE)
               /\ UNCHANGED <<reminders, flights, file, last_save, save_pending>>
          ELSE /\ reminders' = Put(reminders, h, Renumber(filtered_reminders))
               /\ flights' = RefreshFlights(flights, tasks, reminders')
               /\ Called("delete_reminder", TRUE)
               /\ SaveData(FALSE)

\* clear_reminders(user_id)
ClearReminders(u) ==
    LET h == HashUserId(u)
    IN /\ UNCHANGED <<now, fernet, tasks, user_mapping, cache, disk_ok, pc, flights, due,
                      upcoming, nextKey, ghost>>
       /\ reminders' = Del(reminders, h)
       /\ Called("clear_reminders", Len(GetList(reminders, h)))
       /\ SaveData(FALSE)

\* for reminder in reminders: if reminder['id'] == reminder_id: first match
FirstWithId(seq, id) ==
    {i \in 1..Len(seq) : seq[i].id = id /\ \A j \in 1..(i-1) : seq[j].id # id}

\* a mark_reminder_sent that finds the reminder and does not write the flag
MarkReminderSentNoWrite(h, reminder_id) == reminders

\* mark_reminder_sent(hashed_user_id, reminder_id): the Document's reminders after it
MarkReminderSent(h, reminder_id) ==
    LET rs == GetList(reminders, h)
        m  == FirstWithId(rs, reminder_id)
    IN IF m # {}
       THEN Put(reminders, h, [rs EXCEPT ![CHOOSE i \in m : TRUE].sent = TRUE])
       ELSE reminders

\* mark_reminder_sent's return value, and the dict it wrote
MarkReminderSentFound(h, reminder_id) == FirstWithId(GetList(reminders, h), reminder_id) # {}
MarkReminderSentKey(h, reminder_id) ==
    LET rs == GetList(reminders, h)
    IN {rs[i].key : i \in FirstWithId(rs, reminder_id)}

\* writes through a dict reach every list that holds the dict
WriteDict(lists, k, Change(_)) ==
    [h \in DOMAIN lists |->
        [i \in 1..Len(lists[h]) |->
            IF lists[h][i].key = k THEN Change(lists[h][i]) ELSE lists[h][i]]]

\* mark_deadline_reminder_sent(hashed_user_id, task_id)
MarkDeadlineFound(h, task_id) == h \in DOMAIN tasks /\ FirstWithId(tasks[h], task_id) # {}
MarkDeadlineKey(h, task_id) ==
    IF h \in DOMAIN tasks
    THEN {tasks[h][i].key : i \in FirstWithId(tasks[h], task_id)}
    ELSE {}
SetReminderSentNoWrite(t) == t
SetReminderSent(t) == [t EXCEPT !.reminder_sent = TRUE]
MarkDeadlineReminderSent(lists, h, task_id) ==
    IF MarkDeadlineKey(h, task_id) = {} THEN lists
    ELSE WriteDict(lists, CHOOSE k \in MarkDeadlineKey(h, task_id) : TRUE, SetReminderSent)

----------------------------------------------------------------------------
(* The scans of TodoDatabase *)

\* `if not user_id` in reminder_checker: None and the empty string alike
NoUser == ""

\* the iteration order of the Document's dicts (insertion order in the code)
PseudonymOrder == <<HashUserId("u1"), HashUserId("u2")>>

\* actual_user_id of the scans
ActualUserId(h) ==
    IF h \in DOMAIN user_mapping THEN DecryptData(user_mapping[h]) ELSE NoUser

ScanEntry(h, d) == [user_id |-> ActualUserId(h), hashed_user_id |-> h, key |-> d.key, id |-> d.id]

\* a test that ignores the sent flag
IsDueReminderIgnoringSent(r) == FromIsoFormat(r.reminder_time) <= now

\* get_due_reminders: the test of one reminder
IsDueReminder(r) == ~r.sent /\ FromIsoFormat(r.reminder_time) <= now

RECURSIVE DueReminders(_)
DueReminders(hs) ==
    IF hs = << >> THEN << >>
    ELSE LET h == Head(hs)
             due_user_reminders == Filter(GetList(reminders, h), IsDueReminder)
         IN [i \in 1..Len(due_user_reminders) |-> ScanEntry(h, due_user_reminders[i])]
            \o DueReminders(Tail(hs))

\* get_due_reminders()
GetDueReminders == DueReminders(PseudonymOrder)

\* a test that ignores the deadline-reminder flag
IsUpcomingDeadlineIgnoringFlag(t, hours_ahead) ==
    /\ t.deadline # None_
    /\ ~t.completed
    /\ now <= FromIsoFormat(t.deadline)
    /\ FromIsoFormat(t.deadline) <= now + hours_ahead * HourSeconds

\* get_upcoming_deadlines: the test of one task
IsUpcomingDeadline(t, hours_ahead) ==
    /\ t.deadline # None_
    /\ ~t.completed
    /\ ~t.reminder_sent
    /\ now <= FromIsoFormat(t.deadline)
    /\ FromIsoFormat(t.deadline) <= now + hours_ahead * HourSeconds

RECURSIVE UpcomingDeadlines(_, _)
UpcomingDeadlines(hs, hours_ahead) ==
    IF hs = << >> THEN << >>
    ELSE LET h == Head(hs)
             Test(t) == IsUpcomingDeadline(t, hours_ahead)
             upcoming_user_tasks == Filter(GetList(tasks, h), Test)
         IN [i \in 1..Len(upcoming_user_tasks) |-> ScanEntry(h, upcoming_user_tasks[i])]
            \o UpcomingDeadlines(Tail(hs), hours_ahead)

\* a scan that ignores its argument and looks one hour further
GetUpcomingDeadlinesOneHourMore(hours_ahead) ==
    UpcomingDeadlines(PseudonymOrder, DEADLINE_REMINDER_HOURS + 1)

\* get_upcoming_deadlines(hours_ahead)
GetUpcomingDeadlines(hours_ahead) == UpcomingDeadlines(PseudonymOrder, hours_ahead)

\* reminder['message'] = ..., task['task'] = ...: the scans store the decrypted
\* text in the dicts they return
WithPlainText(lists, ks) ==
    [h \in DOMAIN lists |->
        [i \in 1..Len(lists[h]) |->
            IF lists[h][i].key \in ks THEN [lists[h][i] EXCEPT !.plain = TRUE] ELSE lists[h][i]]]

EntryKeys(entries) == {entries[i].key : i \in 1..Len(entries)}

----------------------------------------------------------------------------
(* reminder_checker and its delivery coroutines (bot.py) *)

\* a test that lets every entry into the batch
HasUserIdOrNone(e) == TRUE

\* `if not user_id: continue` in reminder_checker
HasUserId(e) == e.user_id # NoUser
LacksUserId(e) == e.user_id = NoUser

\* _send_reminder_batch / _send_deadline_batch: one coroutine per batch entry,
\* each suspended in fetch_user or user.send
FlightsOf(kind, batch) ==
    [i \in 1..Len(batch) |->
        [kind |-> kind, user_id |-> batch[i].user_id, hashed_user_id |-> batch[i].hashed_user_id,
         key |-> batch[i].key, id |-> batch[i].id, stage |-> "send"]]

Settled(f) == f.stage \in {"ok", "failed"}
AllSettled == \A i \in 1..Len(flights) : Settled(flights[i])

\* reminder_checker from `upcoming_deadlines = ...get_upcoming_deadlines()` on
DeadlinePhase(g) ==
    LET upcoming_deadlines == GetUpcomingDeadlines(DEADLINE_REMINDER_HOURS)
        ks == EntryKeys(upcoming_deadlines)
        deadline_batch == Filter(upcoming_deadlines, HasUserId)
    IN /\ tasks' = WithPlainText(tasks, ks)
       /\ cache' = WithPlainText(cache, ks)
       /\ upcoming' = upcoming_deadlines
       /\ ghost' = [g EXCEPT !.reported = @ \cup ks]
       /\ flights' = FlightsOf("deadline", deadline_batch)
       /\ pc' = IF deadline_batch # << >> THEN "deadlines" ELSE "idle"

\* reminder_checker: one iteration of the loop starts
ReminderChecker ==
    /\ pc = "idle"
    /\ UNCHANGED <<now, fernet, user_mapping, file, last_save, save_pending, disk_ok,
                   nextKey, last>>
    /\ LET due_reminders == GetDueReminders
           ks == EntryKeys(due_reminders)
           reminder_batch == Filter(due_reminders, HasUserId)
           g == [ghost EXCEPT !.reported = @ \cup ks]
       IN /\ reminders' = WithPlainText(reminders, ks)
          /\ due' = due_reminders
          /\ IF reminder_batch # << >>
             THEN /\ pc' = "reminders"
                  /\ flights' = FlightsOf("reminder", reminder_batch)
                  /\ ghost' = g
                  /\ UNCHANGED <<tasks, cache, upcoming>>
             ELSE DeadlinePhase(g)

\* asyncio.gather of the reminder batch returns
ReminderBatchDone ==
    /\ pc = "reminders"
    /\ AllSettled
    /\ UNCHANGED <<now, fernet, reminders, user_mapping, file, last_save, save_pending,
                   disk_ok, due, nextKey, last>>
    /\ DeadlinePhase(ghost)

\* asyncio.gather of the deadline batch returns; the iteration ends and its
\* locals go out of scope
DeadlineBatchDone ==
    /\ pc = "deadlines"
    /\ AllSettled
    /\ pc' = "idle"
    /\ flights' = << >>
    /\ due' = << >>
    /\ upcoming' = << >>
    /\ UNCHANGED <<now, fernet, tasks, reminders, user_mapping, cache, file, last_save,
                   save_pending, disk_ok, nextKey, last, ghost>>

\* a failure that cancels the sibling coroutines of the batch
DeliveryFailsCancelling(i) ==
    /\ flights[i].stage = "send"
    /\ flights' = [j \in 1..Len(flights) |->
                      IF Settled(flights[j]) THEN flights[j]
                      ELSE [flights[j] EXCEPT !.stage = "failed"]]
    /\ UNCHANGED <<now, fernet, tasks, reminders, user_mapping, cache, file, last_save,
                   save_pending, disk_ok, pc, due, upcoming, nextKey, last, ghost>>

\* a delivery coroutine ends without a send: fetch_user raised or returned None,
\* or user.send raised (discord.Forbidden or another exception)
DeliveryFails(i) ==
    /\ flights[i].stage = "send"
    /\ flights' = [flights EXCEPT ![i].stage = "failed"]
    /\ UNCHANGED <<now, fernet, tasks, reminders, user_mapping, cache, file, last_save,
                   save_pending, disk_ok, pc, due, upcoming, nextKey, last, ghost>>

\* fetch_user returns the user and the private message reaches the recipient;
\* the coroutine is still suspended in user.send
Deliver(i) ==
    /\ flights[i].stage = "send"
    /\ flights' = [flights EXCEPT ![i].stage = "sent"]
    /\ ghost' = [ghost EXCEPT !.delivered = Bump(@, flights[i].key)]
    /\ UNCHANGED <<now, fernet, tasks, reminders, user_mapping, cache, file, last_save,
                   save_pending, disk_ok, pc, due, upcoming, nextKey, last>>

\* _send_single_reminder resumes after user.send: mark_reminder_sent
ResumeReminder(i) ==
    LET f == flights[i]
        found == MarkReminderSentFound(f.hashed_user_id, f.id)
    IN /\ f.stage = "sent"
       /\ f.kind = "reminder"
       /\ UNCHANGED <<now, fernet, tasks, user_mapping, cache, disk_ok, pc, due, upcoming,
                      nextKey, ghost>>
       /\ flights' = [flights EXCEPT ![i].stage = "ok"]
       /\ reminders' = MarkReminderSent(f.hashed_user_id, f.id)
       /\ IF found
          THEN /\ Called("mark_reminder_sent", TRUE)
               /\ SaveData(FALSE)
          ELSE /\ Called("mark_reminder_sent", FALSE)
               /\ UNCHANGED <<file, last_save, save_pending>>

\* _send_single_deadline_reminder resumes after user.send: mark_deadline_reminder_sent
ResumeDeadline(i) ==
    LET f == flights[i]
        found == MarkDeadlineFound(f.hashed_user_id, f.id)
    IN /\ f.stage = "sent"
       /\ f.kind = "deadline"
       /\ UNCHANGED <<now, fernet, reminders, user_mapping, disk_ok, pc, due, upcoming,
                      nextKey, ghost>>
       /\ flights' = [flights EXCEPT ![i].stage = "ok"]
       /\ tasks' = MarkDeadlineReminderSent(tasks, f.hashed_user_id, f.id)
       /\ cache' = MarkDeadlineReminderSent(cache, f.hashed_user_id, f.id)
       /\ IF found
          THEN /\ Called("mark_deadline_reminder_sent", TRUE)
               /\ SaveData(FALSE)
          ELSE /\ Called("mark_deadline_reminder_sent", FALSE)
               /\ UNCHANGED <<file, last_save, save_pending>>

\* the steps of the delivery coroutines
Delivery ==
    \E i \in 1..Len(flights) :
        \/ DeliveryFails(i)
        \/ Deliver(i)
        \/ ResumeReminder(i)
        \/ ResumeDeadline(i)

\* the process dies and is started again: TodoDatabase.__init__ and a new TodoBot
Restart ==
    /\ ghost.crashes < MaxCrashes
    /\ LET doc == LoadData
       IN /\ tasks' = doc.tasks
          /\ reminders' = doc.reminders
          /\ user_mapping' = doc.user_mapping
    /\ cache' = << >>
    /\ last_save' = now
    /\ save_pending' = FALSE
    /\ pc' = "idle"
    /\ flights' = << >>
    /\ due' = << >>
    /\ upcoming' = << >>
    /\ last' = NoCall
    /\ ghost' = [ghost EXCEPT !.crashes = @ + 1]
    /\ UNCHANGED <<now, fernet, file, disk_ok, nextKey>>

\* the process is started again with the other ENABLE_ENCRYPTION setting
RestartReconfigured ==
    /\ ghost.crashes < MaxCrashes
    /\ fernet' = ~fernet
    /\ UNCHANGED <<now, file, disk_ok, nextKey>>
    /\ LET doc == LoadData'
       IN /\ tasks' = doc.tasks
          /\ reminders' = doc.reminders
          /\ user_mapping' = doc.user_mapping
    /\ cache' = << >>
    /\ last_save' = now
    /\ save_pending' = FALSE
    /\ pc' = "idle"
    /\ flights' = << >>
    /\ due' = << >>
    /\ upcoming' = << >>
    /\ last' = NoCall
    /\ ghost' = [ghost EXCEPT !.crashes = @ + 1]

\* the deadline command (TodoCommands.set_deadline) with a parsed deadline
SetDeadlineTo(t, deadline) == [t EXCEPT !.deadline = deadline, !.reminder_sent = FALSE, !.plain = TRUE]
SetDeadline(u, task_id, deadline) ==
    LET h  == HashUserId(u)
        ts == CacheAfterGet(h)[h]
        m  == FirstWithId(ts, task_id)
        Edit(t) == SetDeadlineTo(t, deadline)
    IN /\ UNCHANGED <<now, fernet, reminders, user_mapping, disk_ok, pc, flights, due,
                      upcoming, nextKey, ghost>>
       /\ IF m = {}
          THEN /\ cache' = CacheAfterGet(h)
               /\ Called("set_deadline", FALSE)
               /\ UNCHANGED <<tasks, file, last_save, save_pending>>
          ELSE LET k == ts[CHOOSE i \in m : TRUE].key
               IN /\ cache' = WriteDict(CacheAfterGet(h), k, Edit)
                  /\ tasks' = WriteDict(tasks, k, Edit)
                  /\ Called("set_deadline", TRUE)
                  /\ SaveData(FALSE)

----------------------------------------------------------------------------
(* Read operations of TodoDatabase, and mark_reminder_sent as a call of its *)
(* own.  The reads store the decrypted text in the dicts they return, which *)
(* are the stored dicts, and call no _save_data.                            *)

\* get_tasks(user_id)
GetTasks(u) ==
    LET h  == HashUserId(u)
        ts == CacheAfterGet(h)[h]
    IN /\ UNCHANGED <<now, fernet, reminders, user_mapping, file, last_save, save_pending,
                      disk_ok, pc, flights, due, upcoming, nextKey, ghost>>
       /\ tasks' = WithPlainText(tasks, KeysOf(ts))
       /\ cache' = WithPlainText(CacheAfterGet(h), KeysOf(ts))
       /\ Called("get_tasks", Len(ts))

\* get_reminders(user_id)
GetReminders(u) ==
    LET h  == HashUserId(u)
        rs == GetList(reminders, h)
    IN /\ UNCHANGED <<now, fernet, tasks, user_mapping, cache, file, last_save, save_pending,
                      disk_ok, pc, flights, due, upcoming, nextKey, ghost>>
       /\ reminders' = WithPlainText(reminders, KeysOf(rs))
       /\ Called("get_reminders", Len(rs))

\* mark_reminder_sent(hashed_user_id, reminder_id), called outside a sweep
MarkReminderSentCall(h, reminder_id) ==
    /\ UNCHANGED <<now, fernet, tasks, user_mapping, cache, disk_ok, pc, flights, due,
                   upcoming, nextKey, ghost>>
    /\ reminders' = MarkReminderSent(h, reminder_id)
    /\ IF MarkReminderSentFound(h, reminder_id)
       THEN /\ Called("mark_reminder_sent", TRUE)
            /\ SaveData(FALSE)
       ELSE /\ Called("mark_reminder_sent", FALSE)
            /\ UNCHANGED <<file, last_save, save_pending>>

----------------------------------------------------------------------------
(* The parsers of TodoCommands.  A text is modelled by what the regular     *)
(* expressions and strptime see of it:                                      *)
(*   "in 2 hours"  [shape |-> "in", amount |-> <<2>>, unit |-> "hours"]     *)
(*   "in hours"    [shape |-> "in", amount |-> << >>, unit |-> "hours"]     *)
(*   "14:30"       [shape |-> "time", hour |-> 14, minute |-> 30]           *)
(*   "2026-12-31"  [shape |-> "date", style |-> "dash", a |-> 2026, ...]    *)
(*   "12/31/2026"  [shape |-> "date", style |-> "slash", a |-> 12, ...]     *)
(*   "soon"        [shape |-> "word", word |-> "soon"]                      *)
(* An instant is a number of seconds since 00:00:00 of 1 January EpochYear. *)

RelativeText(amount, unit) == [shape |-> "in", amount |-> amount, unit |-> unit]
TimeText(hour, minute) == [shape |-> "time", hour |-> hour, minute |-> minute]
DateText(style, a, b, c) == [shape |-> "date", style |-> style, a |-> a, b |-> b, c |-> c]
WordText(word) == [shape |-> "word", word |-> word]

\* what a parser returns, or the exception that leaves it
Parsed(v) == [ok |-> TRUE, value |-> <<v>>, error |-> "", carries_input |-> FALSE]
Raised(error, carries_input) ==
    [ok |-> FALSE, value |-> << >>, error |-> error, carries_input |-> carries_input]

\* the calendar of datetime.strptime and datetime.replace
IsLeap(y) == (y % 4 = 0 /\ y % 100 # 0) \/ y % 400 = 0
DaysInMonth(y, m) ==
    IF m = 2 THEN (IF IsLeap(y) THEN 29 ELSE 28)
    ELSE IF m \in {4, 6, 9, 11} THEN 30 ELSE 31
ValidDate(y, m, d) == y >= 1 /\ m \in 1..12 /\ d >= 1 /\ d <= DaysInMonth(y, m)
ValidTime(hour, minute) == hour \in 0..23 /\ minute \in 0..59

RECURSIVE DaysBeforeMonth(_, _)
DaysBeforeMonth(y, m) ==
    IF m <= 1 THEN 0 ELSE DaysBeforeMonth(y, m - 1) + DaysInMonth(y, m - 1)
DaysBeforeYear(y) ==
    (y - EpochYear) * YearDays + Cardinality({z \in EpochYear..(y - 1) : IsLeap(z)})

\* datetime(y, m, d, hour, minute)
DateTime(y, m, d, hour, minute) ==
    (DaysBeforeYear(y) + DaysBeforeMonth(y, m) + d - 1) * DaySeconds
        + hour * HourSeconds + minute * MinuteSeconds

\* now.replace(hour=..., minute=..., second=0, microsecond=0)
ReplaceTime(t, hour, minute) ==
    (t \div DaySeconds) * DaySeconds + hour * HourSeconds + minute * MinuteSeconds

\* a roll to tomorrow that keeps a time equal to now
RollOverIfBefore(t) == IF t < now THEN t + DaySeconds ELSE t

\* if deadline <= now: deadline += timedelta(days=1)
RollOver(t) == IF t <= now THEN t + DaySeconds ELSE t

\* timedelta lengths that take an hour for a minute
UnitSecondsShortHour(unit) ==
    IF unit = "minute" THEN MinuteSeconds
    ELSE IF unit = "hour" THEN MinuteSeconds
    ELSE IF unit = "day" THEN DaySeconds
    ELSE IF unit = "week" THEN 7 * DaySeconds
    ELSE IF unit = "month" THEN MonthDays * DaySeconds
    ELSE YearDays * DaySeconds

\* timedelta(minutes=1), (hours=1), (days=1), (weeks=1), (days=30), (days=365)
UnitSeconds(unit) ==
    IF unit = "minute" THEN MinuteSeconds
    ELSE IF unit = "hour" THEN HourSeconds
    ELSE IF unit = "day" THEN DaySeconds
    ELSE IF unit = "week" THEN 7 * DaySeconds
    ELSE IF unit = "month" THEN MonthDays * DaySeconds
    ELSE YearDays * DaySeconds

\* _parse_deadline: 'hour' in time_part, elif 'day' ..., 'week' ..., 'minute' ...
DeadlineUnitOf(word) ==
    IF word \in {"hour", "hours"} THEN "hour"
    ELSE IF word \in {"day", "days"} THEN "day"
    ELSE IF word \in {"week", "weeks"} THEN "week"
    ELSE IF word \in {"minute", "minutes"} THEN "minute"
    ELSE "none"

\* _parse_reminder_time: the first of time_patterns that re.search finds
ReminderUnitOf(word) ==
    IF word \in {"year", "years"} THEN "year"
    ELSE IF word \in {"month", "months"} THEN "month"
    ELSE IF word \in {"week", "weeks"} THEN "week"
    ELSE IF word \in {"day", "days"} THEN "day"
    ELSE IF word \in {"hour", "hours"} THEN "hour"
    ELSE IF word \in {"minute", "minutes"} THEN "minute"
    ELSE IF word \in {"min", "mins"} THEN "minute"
    ELSE IF word \in {"hr", "hrs"} THEN "hour"
    ELSE "none"

\* _parse_deadline(deadline_str): the isoformat string, or the exception
ParseDeadline(text) ==
    IF text.shape = "in" /\ DeadlineUnitOf(text.unit) # "none"
    THEN IF text.amount = << >>
         THEN Raised("AttributeError", FALSE)
         ELSE Parsed(IsoFormat(now + text.amount[1] * UnitSeconds(DeadlineUnitOf(text.unit))))
    ELSE IF text.shape = "time" /\ ValidTime(text.hour, text.minute)
    THEN Parsed(IsoFormat(RollOver(ReplaceTime(now, text.hour, text.minute))))
    ELSE IF text.shape = "date" /\ text.style = "dash" /\ ValidDate(text.a, text.b, text.c)
    THEN Parsed(IsoFormat(DateTime(text.a, text.b, text.c, 23, 59)))
    ELSE IF text.shape = "date" /\ text.style = "slash" /\ ValidDate(text.c, text.a, text.b)
    THEN Parsed(IsoFormat(DateTime(text.c, text.a, text.b, 23, 59)))
    ELSE Raised("ValueError", TRUE)

\* _parse_reminder_time(time_str): the datetime, or the exception
ParseReminderTime(text) ==
    IF text.shape = "in"
    THEN IF text.amount # << >> /\ ReminderUnitOf(text.unit) # "none"
         THEN Parsed(now + text.amount[1] * UnitSeconds(ReminderUnitOf(text.unit)))
         ELSE Raised("ValueError", FALSE)
    ELSE IF text.shape = "time"
    THEN IF ValidTime(text.hour, text.minute)
         THEN Parsed(RollOver(ReplaceTime(now, text.hour, text.minute)))
         ELSE Raised("ValueError", FALSE)
    ELSE IF text.shape = "date" /\ text.style = "dash" /\ ValidDate(text.a, text.b, text.c)
    THEN Parsed(DateTime(text.a, text.b, text.c, 9, 0))
    ELSE IF text.shape = "date" /\ text.style = "slash" /\ ValidDate(text.c, text.a, text.b)
    THEN Parsed(DateTime(text.c, text.a, text.b, 9, 0))
    ELSE IF text.shape = "date" /\ text.style = "slash" /\ ValidDate(text.c, text.b, text.a)
    THEN Parsed(DateTime(text.c, text.b, text.a, 9, 0))
    ELSE Raised("ValueError", FALSE)

\* a call of a parser: the text, the time of the call and the outcome
ParseDeadlineCall(text) ==
    /\ UNCHANGED <<now, fernet, tasks, reminders, user_mapping, cache, file, last_save,
                   save_pending, disk_ok, pc, flights, due, upcoming, nextKey, ghost>>
    /\ Called("_parse_deadline", [text |-> text, at |-> now, result |-> ParseDeadline(text)])

ParseReminderTimeCall(text) ==
    /\ UNCHANGED <<now, fernet, tasks, reminders, user_mapping, cache, file, last_save,
                   save_pending, disk_ok, pc, flights, due, upcoming, nextKey, ghost>>
    /\ Called("_parse_reminder_time",
              [text |-> text, at |-> now, result |-> ParseReminderTime(text)])

\* a horizon check that lets every time through
TooFarAheadNever(t) == FALSE

\* remindme: reminder_time <= datetime.now(), and
\* reminder_time > datetime.now() + timedelta(days=365)
NotInFuture(t) == t <= now
TooFarAhead(t) == t > now + YearDays * DaySeconds

\* the remindme command with a message and a time text
Remindme(u, message, text) ==
    LET r == ParseReminderTime(text)
    IN IF ~r.ok
       THEN /\ UNCHANGED <<now, fernet, tasks, reminders, user_mapping, cache, file,
                           last_save, save_pending, disk_ok, pc, flights, due, upcoming,
                           nextKey, ghost>>
            /\ Called("remindme", "invalid")
       ELSE IF NotInFuture(r.value[1])
       THEN /\ UNCHANGED <<now, fernet, tasks, reminders, user_mapping, cache, file,
                           last_save, save_pending, disk_ok, pc, flights, due, upcoming,
                           nextKey, ghost>>
            /\ Called("remindme", "past")
       ELSE IF TooFarAhead(r.value[1])
       THEN /\ UNCHANGED <<now, fernet, tasks, reminders, user_mapping, cache, file,
                           last_save, save_pending, disk_ok, pc, flights, due, upcoming,
                           nextKey, ghost>>
            /\ Called("remindme", "far")
       ELSE AddReminder(u, message, IsoFormat(r.value[1]))

----------------------------------------------------------------------------
(* Environment *)

\* the clock advances by d seconds
Tick(d) ==
    /\ ghost.ticks < MaxTicks
    /\ now' = now + d
    /\ ghost' = [ghost EXCEPT !.ticks = @ + 1]
    /\ UNCHANGED <<fernet, tasks, reminders, user_mapping, cache, file, last_save,
                   save_pending, disk_ok, pc, flights, due, upcoming, nextKey, last>>

\* the file is replaced or removed from outside the process
FileDamaged(content) ==
    /\ file' = <<content>>
    /\ UNCHANGED <<now, fernet, tasks, reminders, user_mapping, cache, last_save,
                   save_pending, disk_ok, pc, flights, due, upcoming, nextKey, last, ghost>>

FileRemoved ==
    /\ file' = << >>
    /\ UNCHANGED <<now, fernet, tasks, reminders, user_mapping, cache, last_save,
                   save_pending, disk_ok, pc, flights, due, upcoming, nextKey, last, ghost>>

\* the disk starts or stops failing: open() or write() in _save_data raises,
\* which _save_data catches and logs
DiskFault ==
    /\ disk_ok' = ~disk_ok
    /\ UNCHANGED <<now, fernet, tasks, reminders, user_mapping, cache, file, last_save,
                   save_pending, pc, flights, due, upcoming, nextKey, last, ghost>>

----------------------------------------------------------------------------
(* TodoDatabase.__init__ on a missing file *)

InitGhost(trace) ==
    [ticks |-> 0, crashes |-> 0, delivered |-> << >>, reported |-> {}, trace |-> trace]

InitWith(trace) ==
    /\ now = 0
    /\ fernet = TRUE
    /\ file = << >>
    /\ tasks = << >>
    /\ reminders = << >>
    /\ user_mapping = << >>
    /\ cache = << >>
    /\ last_save = 0
    /\ save_pending = FALSE
    /\ disk_ok = TRUE
    /\ pc = "idle"
    /\ flights = << >>
    /\ due = << >>
    /\ upcoming = << >>
    /\ nextKey = 1
    /\ last = NoCall
    /\ ghost = InitGhost(trace)

Init == InitWith(FALSE)
InitTraced == InitWith(TRUE)

\* the same with ENABLE_ENCRYPTION either way
InitEitherSetting ==
    /\ fernet \in BOOLEAN
    /\ now = 0
    /\ file = << >>
    /\ tasks = << >>
    /\ reminders = << >>
    /\ user_mapping = << >>
    /\ cache = << >>
    /\ last_save = 0
    /\ save_pending = FALSE
    /\ disk_ok = TRUE
    /\ pc = "idle"
    /\ flights = << >>
    /\ due = << >>
    /\ upcoming = << >>
    /\ nextKey = 1
    /\ last = NoCall
    /\ ghost = InitGhost(TRUE)

----------------------------------------------------------------------------
(* SpecTasks: the task operations of one process, no sweep *)

TaskIds == 1..MaxTaskKeys

NextTasks ==
    \/ \E u \in Users : nextKey <= MaxTaskKeys /\ AddTask(u, "a", None_)
    \/ \E u \in Users, id \in TaskIds : CompleteTask(u, id)
    \/ \E u \in Users, id \in TaskIds : UncompleteTask(u, id)
    \/ \E u \in Users, id \in TaskIds : RemoveTask(u, id)
    \/ \E u \in Users : ClearCompletedTasks(u)
    \/ \E u \in Users : ClearAllTasks(u)

SpecTasks == InitTraced /\ [][NextTasks]_vars

----------------------------------------------------------------------------
(* Inputs of the specifications *)

ItemIds == 1..2
ReminderTimes == {IsoFormat(5), IsoFormat(10)}
Deadlines == {IsoFormat(5), IsoFormat(DEADLINE_REMINDER_HOURS * HourSeconds + 5)}

----------------------------------------------------------------------------
(* SpecOne: one user's tasks with deadlines and reminders, and the sweep *)

NextOne ==
    \/ \E d \in Deadlines : nextKey <= MaxKeys /\ AddTask("u1", "a", d)
    \/ \E id \in ItemIds, d \in Deadlines : SetDeadline("u1", id, d)
    \/ \E t \in ReminderTimes : nextKey <= MaxKeys /\ AddReminder("u1", "m", t)
    \/ ReminderChecker
    \/ ReminderBatchDone
    \/ DeadlineBatchDone
    \/ Delivery
    \/ Tick(5)

SpecOne == Init /\ [][NextOne]_vars

----------------------------------------------------------------------------
(* SpecDl: tasks with deadlines and the sweep of one process *)

NextDl ==
    \/ \E u \in Users, d \in Deadlines \cup {None_} : nextKey <= MaxKeys /\ AddTask(u, "a", d)
    \/ \E u \in Users, id \in ItemIds : CompleteTask(u, id)
    \/ \E u \in Users, id \in ItemIds : RemoveTask(u, id)
    \/ ReminderChecker
    \/ DeadlineBatchDone
    \/ \E i \in 1..Len(flights) : DeliveryFails(i) \/ Deliver(i) \/ ResumeDeadline(i)
    \/ Tick(5)

SpecDl == Init /\ [][NextDl]_vars

----------------------------------------------------------------------------
(* SpecRem: reminders and the sweep of one process, on a scale of seconds *)

NextRem ==
    \/ \E u \in Users, t \in ReminderTimes : nextKey <= MaxKeys /\ AddReminder(u, "m", t)
    \/ \E u \in Users, id \in ItemIds : DeleteReminder(u, id)
    \/ \E u \in Users : ClearReminders(u)
    \/ \E u \in Users : ClearAllTasks(u)
    \/ ReminderChecker
    \/ ReminderBatchDone
    \/ \E i \in 1..Len(flights) : DeliveryFails(i) \/ Deliver(i) \/ ResumeReminder(i)
    \/ Tick(5)

SpecRem == Init /\ [][NextRem]_vars

----------------------------------------------------------------------------
(* SpecCap: one owner fills the task list up to the limit *)

NextCap ==
    \/ nextKey <= CapKeys /\ AddTask("u1", "a", None_)
    \/ RemoveTask("u1", 1)
    \/ ClearAllTasks("u1")

SpecCap == InitTraced /\ [][NextCap]_vars

----------------------------------------------------------------------------
(* SpecCrash: one owner's reminders and deadlines, the sweep, and restarts  *)
(* of the process, on a scale of the debounce interval.  The owner adds     *)
(* items and removes none, so every id a delivery coroutine holds is the id *)
(* of its own item.                                                         *)

CrashReminderTime == IsoFormat(DATABASE_SAVE_DEBOUNCE)
CrashDeadline == IsoFormat(2 * DATABASE_SAVE_DEBOUNCE)

NextCrash ==
    \/ nextKey <= MaxKeys /\ AddReminder("u1", "m", CrashReminderTime)
    \/ nextKey <= MaxKeys /\ AddTask("u1", "a", CrashDeadline)
    \/ ReminderChecker
    \/ ReminderBatchDone
    \/ DeadlineBatchDone
    \/ Delivery
    \/ Restart
    \/ Tick(DATABASE_SAVE_DEBOUNCE)

SpecCrash == Init /\ [][NextCrash]_vars

----------------------------------------------------------------------------
(* SpecSave: saves of one process around the debounce interval *)

SaveSteps == {1, DATABASE_SAVE_DEBOUNCE - 1, DATABASE_SAVE_DEBOUNCE}

NextSave ==
    \/ nextKey <= MaxKeys /\ AddTask("u1", "a", None_)
    \/ ClearAllTasks("u1")
    \/ ForceSave
    \/ DiskFault
    \/ \E d \in SaveSteps : Tick(d)

SpecSave == InitTraced /\ [][NextSave]_vars

----------------------------------------------------------------------------
(* SpecStore: one owner's commands and reads around the debounce interval; *)
(* every write of the file succeeds                                        *)

StoreSteps == {1, DATABASE_SAVE_DEBOUNCE}

NextStore ==
    \/ nextKey <= MaxKeys /\ AddTask("u1", "a", None_)
    \/ \E id \in ItemIds : SetDeadline("u1", id, CrashDeadline)
    \/ GetTasks("u1")
    \/ nextKey <= MaxKeys /\ AddReminder("u1", "m", CrashReminderTime)
    \/ GetReminders("u1")
    \/ \E d \in StoreSteps : Tick(d)

SpecStore == InitTraced /\ [][NextStore]_vars

----------------------------------------------------------------------------
(* SpecRepo: one owner's task and reminder operations side by side, no     *)
(* sweep                                                                   *)

NextRepo ==
    \/ nextKey <= MaxTaskKeys /\ AddTask("u1", "a", None_)
    \/ \E id \in TaskIds : CompleteTask("u1", id)
    \/ \E id \in TaskIds : RemoveTask("u1", id)
    \/ ClearCompletedTasks("u1")
    \/ ClearAllTasks("u1")
    \/ GetTasks("u1")
    \/ nextKey <= MaxTaskKeys /\ AddReminder("u1", "m", CrashReminderTime)
    \/ \E id \in TaskIds : DeleteReminder("u1", id)
    \/ ClearReminders("u1")
    \/ \E id \in TaskIds : MarkReminderSentCall(HashUserId("u1"), id)

SpecRepo == InitTraced /\ [][NextRepo]_vars

----------------------------------------------------------------------------
(* SpecRemCap: one owner fills the reminder list up to the limit *)

NextRemCap ==
    \/ nextKey <= CapKeys /\ AddReminder("u1", "m", CrashReminderTime)
    \/ DeleteReminder("u1", 1)
    \/ ClearReminders("u1")

SpecRemCap == InitTraced /\ [][NextRemCap]_vars

----------------------------------------------------------------------------
(* SpecFan: one owner holds more reminders than MAX_CONCURRENT_REMINDERS   *)
(* and the sweep delivers them; the deliveries succeed and end in the      *)
(* order of the batch                                                      *)

FanReminderTime == IsoFormat(5)

NextFan ==
    \/ nextKey <= FanKeys /\ AddReminder("u1", "m", FanReminderTime)
    \/ ReminderChecker
    \/ ReminderBatchDone
    \/ \E i \in 1..Len(flights) :
          /\ \A j \in 1..(i - 1) : Settled(flights[j])
          /\ (Deliver(i) \/ ResumeReminder(i))
    \/ Tick(5)

SpecFan == Init /\ [][NextFan]_vars

----------------------------------------------------------------------------
(* SpecIso: the commands and reads of two users on one repository, no sweep *)

NextIso ==
    \/ \E u \in Users : nextKey <= MaxKeys /\ AddTask(u, "a", None_)
    \/ \E u \in Users, id \in ItemIds : CompleteTask(u, id)
    \/ \E u \in Users, id \in ItemIds : UncompleteTask(u, id)
    \/ \E u \in Users, id \in ItemIds : RemoveTask(u, id)
    \/ \E u \in Users : ClearCompletedTasks(u)
    \/ \E u \in Users : ClearAllTasks(u)
    \/ \E u \in Users, id \in ItemIds : SetDeadline(u, id, CrashDeadline)
    \/ \E u \in Users : GetTasks(u)
    \/ \E u \in Users : nextKey <= MaxKeys /\ AddReminder(u, "m", CrashReminderTime)
    \/ \E u \in Users, id \in ItemIds : DeleteReminder(u, id)
    \/ \E u \in Users : ClearReminders(u)
    \/ \E u \in Users : GetReminders(u)

SpecIso == Init /\ [][NextIso]_vars

----------------------------------------------------------------------------
(* SpecLoad: one owner's store is saved, the file is damaged or not, and   *)
(* the process is started again, with encryption enabled or disabled       *)

DamagedContents == {BlankText, GarbageText, Unreadable}

NextLoad ==
    \/ nextKey <= MaxKeys /\ AddTask("u1", "a", CrashDeadline)
    \/ nextKey <= MaxKeys /\ AddReminder("u1", "m", CrashReminderTime)
    \/ CompleteTask("u1", 1)
    \/ ForceSave
    \/ Tick(DATABASE_SAVE_DEBOUNCE)
    \/ \E c \in DamagedContents : FileDamaged(c)
    \/ FileRemoved
    \/ Restart
    \/ RestartReconfigured

SpecLoad == InitEitherSetting /\ [][NextLoad]_vars

----------------------------------------------------------------------------
(* SpecParse: the two parsers applied to texts of every shape at several   *)
(* times of the day                                                        *)

GrammarUnits == {"minute", "minutes", "hour", "hours", "day", "days", "week", "weeks"}
OtherUnits == {"months", "years", "mins", "fortnights"}
Amounts == {0, 2}

RelativeTexts ==
    {RelativeText(<<n>>, unit) : n \in Amounts, unit \in GrammarUnits}
        \cup {RelativeText(<<2>>, unit) : unit \in OtherUnits}
        \cup {RelativeText(<< >>, unit) : unit \in {"hours", "fortnights"}}

TimeTexts == {TimeText(0, 0), TimeText(14, 30), TimeText(23, 59), TimeText(24, 0), TimeText(9, 60)}

DateTexts ==
    {DateText("dash", EpochYear, 12, 31), DateText("dash", EpochYear, 2, 30),
     DateText("dash", EpochYear + 2, 3, 1),
     DateText("slash", 12, 31, EpochYear), DateText("slash", 31, 12, EpochYear),
     DateText("slash", 5, 12, EpochYear), DateText("slash", 13, 13, EpochYear)}

WordTexts == {WordText("soon"), WordText("")}

ParseInputs == RelativeTexts \cup TimeTexts \cup DateTexts \cup WordTexts

ParseSteps == {1, 14 * HourSeconds + 30 * MinuteSeconds, DaySeconds}

NextParse ==
    \/ \E text \in ParseInputs : ParseDeadlineCall(text)
    \/ \E text \in ParseInputs : ParseReminderTimeCall(text)
    \/ \E d \in ParseSteps : Tick(d)

SpecParse == InitTraced /\ [][NextParse]_vars

----------------------------------------------------------------------------
(* SpecRemind: one owner's remindme commands at several times *)

RemindInputs ==
    {RelativeText(<<0>>, "minutes"), RelativeText(<<1>>, "minutes"),
     RelativeText(<<1>>, "years"), RelativeText(<<366>>, "days"),
     RelativeText(<<13>>, "months"), RelativeText(<<2>>, "fortnights"),
     TimeText(0, 0), TimeText(14, 30),
     DateText("dash", EpochYear, 1, 1), DateText("dash", EpochYear + 1, 1, 1),
     DateText("dash", EpochYear + 1, 1, 2), DateText("dash", EpochYear + 1, 1, 3),
     WordText("soon")}

RemindSteps == {1, 9 * HourSeconds, DaySeconds}

NextRemind ==
    \/ \E text \in RemindInputs : nextKey <= MaxKeys /\ Remindme("u1", "m", text)
    \/ \E d \in RemindSteps : Tick(d)

SpecRemind == InitTraced /\ [][NextRemind]_vars

----------------------------------------------------------------------------
(* SpecEdit: one owner's tasks are notified under a first deadline and      *)
(* edited to a second one that does not come inside the window while the    *)
(* behaviour lasts                                                          *)

EditOldDeadline == IsoFormat(5)
EditNewDeadline == IsoFormat(2 * DEADLINE_REMINDER_HOURS * HourSeconds)

NextEdit ==
    \/ nextKey <= MaxKeys /\ AddTask("u1", "a", EditOldDeadline)
    \/ \E id \in ItemIds : SetDeadline("u1", id, EditNewDeadline)
    \/ ReminderChecker
    \/ DeadlineBatchDone
    \/ \E i \in 1..Len(flights) : DeliveryFails(i) \/ Deliver(i) \/ ResumeDeadline(i)
    \/ Tick(5)

SpecEdit == Init /\ [][NextEdit]_vars

----------------------------------------------------------------------------
(* SpecDecline: one owner fills the reminder list up to the limit and runs  *)
(* clear_all_tasks                                                          *)

NextDecline ==
    \/ nextKey <= CapKeys /\ AddReminder("u1", "m", CrashReminderTime)
    \/ DeleteReminder("u1", 1)
    \/ ClearAllTasks("u1")

SpecDecline == InitTraced /\ [][NextDecline]_vars

----------------------------------------------------------------------------
(* SpecCache: one owner's task commands through the cache, the deadline     *)
(* phase of the sweep through the Document, and restarts                    *)

NextCache ==
    \/ nextKey <= CacheKeys /\ AddTask("u1", "a", CrashDeadline)
    \/ \E id \in 1..CacheKeys : CompleteTask("u1", id)
    \/ \E id \in 1..CacheKeys : SetDeadline("u1", id, CrashDeadline)
    \/ ClearAllTasks("u1")
    \/ ReminderChecker
    \/ DeadlineBatchDone
    \/ \E i \in 1..Len(flights) : Deliver(i) \/ ResumeDeadline(i)
    \/ Restart
    \/ Tick(DATABASE_SAVE_DEBOUNCE)

SpecCache == Init /\ [][NextCache]_vars

\* one owner whose items are all due from the start, who sets the deadline of
\* a task again to the value it has, and removes items, while sweeps run
OnceTime == IsoFormat(0)
OnceDeadline == IsoFormat(HourSeconds)

NextOnce ==
    \/ nextKey <= MaxKeys /\ AddTask("u1", "a", OnceDeadline)
    \/ nextKey <= MaxKeys /\ AddReminder("u1", "m", OnceTime)
    \/ \E id \in ItemIds : SetDeadline("u1", id, OnceDeadline)
    \/ \E id \in ItemIds : RemoveTask("u1", id)
    \/ \E id \in ItemIds : DeleteReminder("u1", id)
    \/ ReminderChecker
    \/ ReminderBatchDone
    \/ DeadlineBatchDone
    \/ Delivery

SpecOnce == Init /\ [][NextOnce]_vars

\* the bot left running: reminder_checker is started in setup_hook and its
\* loop fires every REMINDER_CHECK_INTERVAL minutes, gather returns once its
\* coroutines have ended, every send succeeds and the clock advances; the
\* owner's commands come when the owner issues them, if ever
LiveTime == IsoFormat(DATABASE_SAVE_DEBOUNCE)

LiveDelivery ==
    \E i \in 1..Len(flights) : Deliver(i) \/ ResumeReminder(i) \/ ResumeDeadline(i)

NextLive ==
    \/ nextKey <= MaxKeys /\ AddReminder("u1", "m", LiveTime)
    \/ nextKey <= MaxKeys /\ AddTask("u1", "a", LiveTime)
    \/ ClearAllTasks("u1")
    \/ ReminderChecker
    \/ ReminderBatchDone
    \/ DeadlineBatchDone
    \/ LiveDelivery
    \/ Tick(DATABASE_SAVE_DEBOUNCE)

SpecLive ==
    /\ Init
    /\ [][NextLive]_vars
    /\ WF_vars(ReminderChecker)
    /\ WF_vars(ReminderBatchDone)
    /\ WF_vars(DeadlineBatchDone)
    /\ WF_vars(LiveDelivery)
    /\ WF_vars(Tick(DATABASE_SAVE_DEBOUNCE))

----------------------------------------------------------------------------
(* Vocabulary of the properties *)

\* the dicts stored in the lists of a dict of lists
Items(lists) == UNION {{lists[h][i] : i \in 1..Len(lists[h])} : h \in DOMAIN lists}

\* the keys of the stored reminders / tasks whose flag is set
SentKeys == {r.key : r \in {x \in Items(reminders) : x.sent}}
FlaggedTaskKeys == {t.key : t \in {x \in Items(tasks) : x.reminder_sent}}

\* a list whose ids are exactly 1..N, no id twice
IdsDense(seq) ==
    /\ {seq[i].id : i \in 1..Len(seq)} = 1..Len(seq)
    /\ \A i, j \in 1..Len(seq) : seq[i].id = seq[j].id => i = j

\* every entry of a scan result names the list that holds its dict
PairedWithOwner(entries, lists) ==
    \A i \in 1..Len(entries) :
        /\ entries[i].hashed_user_id \in DOMAIN lists
        /\ \E j \in 1..Len(lists[entries[i].hashed_user_id]) :
              lists[entries[i].hashed_user_id][j].key = entries[i].key

----------------------------------------------------------------------------
(* Properties *)

\* C1: after every operation of any sequence of add_task, remove_task,
\* complete_task, uncomplete_task, clear_completed_tasks and clear_all_tasks,
\* the ids of an owner's N stored tasks (in the Document and in the list that
\* get_tasks returns) are exactly 1..N, no id twice.
C1_IdsDense ==
    /\ \A h \in DOMAIN tasks : IdsDense(tasks[h])
    /\ \A h \in DOMAIN cache : IdsDense(cache[h])

\* remove_task removed the first of three tasks: the two that remain were renumbered
C1_Witness ==
    /\ last = [op |-> "remove_task", ret |-> TRUE]
    /\ \E h \in DOMAIN tasks :
          /\ Len(tasks[h]) = 2
          /\ tasks[h][1].key = 2
          /\ tasks[h][2].key = 3

\* C2: add_task returns false exactly when the owner already holds
\* MAX_TASKS_PER_USER (50) tasks, and then leaves the list as it is; otherwise
\* it returns true and the list is one longer; no owner's list is ever longer
\* than MAX_TASKS_PER_USER.
C2_TaskLimit ==
    /\ [](\A h \in DOMAIN tasks : Len(tasks[h]) <= MAX_TASKS_PER_USER)
    /\ [][\A u \in Users :
            AddTask(u, "a", None_) =>
                LET held == Len(GetList(tasks, HashUserId(u)))
                    then == Len(GetList(tasks', HashUserId(u)))
                IN /\ last'.ret = FALSE <=> held = MAX_TASKS_PER_USER
                   /\ last'.ret = FALSE => then = held
                   /\ last'.ret = TRUE => then = held + 1]_vars

\* the 51st add_task was declined and the list still holds 50 tasks
C2_Witness ==
    /\ last = [op |-> "add_task", ret |-> FALSE]
    /\ Len(GetList(tasks, HashUserId("u1"))) = MAX_TASKS_PER_USER

\* the keys get_due_reminders has to return at this time
DueKeysExpected ==
    {r.key : r \in {x \in Items(reminders) : ~x.sent /\ FromIsoFormat(x.reminder_time) <= now}}

\* C3: get_due_reminders, as called by the sweep at time now, returns exactly
\* the stored reminders of all owners with sent = false and fire time <= now,
\* each once and paired with the pseudonym of its owner.
C3_DueExactly ==
    [][ReminderChecker =>
          /\ EntryKeys(due') = DueKeysExpected
          /\ Len(due') = Cardinality(DueKeysExpected)
          /\ PairedWithOwner(due', reminders)]_vars

\* a scan returned a reminder and left out an older one that is not yet due
C3_Witness ==
    /\ pc = "reminders"
    /\ \E i \in 1..Len(due) : \E r \in Items(reminders) :
          /\ r.key < due[i].key
          /\ ~r.sent
          /\ FromIsoFormat(r.reminder_time) > now

\* C4: once mark_reminder_sent has returned true for a reminder, its flag stays
\* set while the reminder is stored, whatever operation runs, and no later
\* get_due_reminders returns it.
C4_MarkedStaysOut ==
    [][/\ \A i \in 1..Len(flights) :
            (ResumeReminder(i) /\ MarkReminderSentFound(flights[i].hashed_user_id, flights[i].id))
                => MarkReminderSentKey(flights[i].hashed_user_id, flights[i].id) \subseteq SentKeys'
       /\ \A r \in Items(reminders') : r.key \in SentKeys => r.sent
       /\ ReminderChecker => EntryKeys(due') \cap SentKeys = {}]_vars

\* a sweep has just scanned while a marked reminder, long due, was stored:
\* the batch does not hold it
C4_Witness ==
    /\ pc = "reminders"
    /\ \A i \in 1..Len(flights) : flights[i].stage = "send"
    /\ \E r \in Items(reminders) :
          /\ r.sent
          /\ FromIsoFormat(r.reminder_time) < now
          /\ \A i \in 1..Len(flights) : flights[i].key # r.key

\* C5: a due reminder whose delivery attempt failed keeps sent = false while it
\* is stored: the flag of a reminder is set only by the mark_reminder_sent that
\* follows the delivery of that reminder.
C5_FailedStaysUnsent ==
    \A i \in 1..Len(flights) :
        (flights[i].kind = "reminder" /\ flights[i].stage = "failed")
            => flights[i].key \notin SentKeys

\* the keys the scans of this step return: get_due_reminders when an iteration
\* starts, get_upcoming_deadlines when it reaches the deadline phase
NewlyReported ==
    (IF ReminderChecker THEN EntryKeys(due') ELSE {})
    \cup (IF (ReminderChecker /\ pc' # "reminders") \/ ReminderBatchDone
          THEN EntryKeys(upcoming') ELSE {})

\* C6 as stated: an item that a scan has reported is not reported by a later scan.
C6_ReportedAtMostOnce ==
    [][NewlyReported \cap ghost.reported = {}]_vars

\* C6: no scan reports an item whose flag is set; a set flag of a stored item
\* stays set unless the deadline command edits the task; and get_due_reminders
\* reports a due reminder again, in every sweep, while its flag is not set.
C6_ReportedUntilMarked ==
    [][/\ NewlyReported \cap (SentKeys \cup FlaggedTaskKeys) = {}
       /\ \A r \in Items(reminders') : r.key \in SentKeys => r.sent
       /\ \A t \in Items(tasks') :
             t.key \in FlaggedTaskKeys
                => \/ t.reminder_sent
                   \/ \E id \in ItemIds, d \in Deadlines : SetDeadline("u1", id, d)
       /\ ReminderChecker => (ghost.reported \cap DueKeysExpected) \subseteq EntryKeys(due')]_vars

\* a scan reports, and a delivery starts for, an item that was delivered before
C6_Witness ==
    \E i \in 1..Len(flights) :
        /\ flights[i].stage = "send"
        /\ Count(ghost.delivered, flights[i].key) >= 1

\* the keys get_upcoming_deadlines(hours_ahead) has to return at this time
UpcomingKeysExpected(hours_ahead) ==
    {t.key : t \in {x \in Items(tasks) :
                       /\ x.deadline # None_
                       /\ ~x.completed
                       /\ ~x.reminder_sent
                       /\ now <= FromIsoFormat(x.deadline)
                       /\ FromIsoFormat(x.deadline) <= now + hours_ahead * HourSeconds}}

\* C7: get_upcoming_deadlines(h), as called by the sweep at time now with
\* h = DEADLINE_REMINDER_HOURS, returns exactly the stored tasks of all owners
\* that have a deadline, are not completed, have the deadline-reminder flag
\* false, and now <= deadline <= now + h hours, each once and paired with the
\* pseudonym of its owner.
C7_UpcomingExactly ==
    [][(ReminderChecker /\ pc' # "reminders") =>
          /\ EntryKeys(upcoming') = UpcomingKeysExpected(DEADLINE_REMINDER_HOURS)
          /\ Len(upcoming') = Cardinality(UpcomingKeysExpected(DEADLINE_REMINDER_HOURS))
          /\ PairedWithOwner(upcoming', tasks)]_vars

\* a scan returned a task and left out an older, open one whose deadline is
\* further away than the window
C7_Witness ==
    /\ pc = "deadlines"
    /\ \E i \in 1..Len(upcoming) : \E t \in Items(tasks) :
          /\ t.key < upcoming[i].key
          /\ ~t.completed
          /\ ~t.reminder_sent
          /\ t.deadline # None_
          /\ FromIsoFormat(t.deadline) > now + DEADLINE_REMINDER_HOURS * HourSeconds

\* C8: in the reminder batch of a sweep, a delivery that fails changes no other
\* delivery of the batch and does not end the batch; a delivery that has not
\* failed can always go on; the mark that follows the delivery of a stored
\* reminder sets the flag of that reminder; and when the batch returns, every
\* delivery that succeeded has delivered its reminder and, if the reminder is
\* still stored, left it marked.
C8_FailureIsolated ==
    /\ [](\A i \in 1..Len(flights) : flights[i].stage = "send" => ENABLED Deliver(i))
    /\ [][/\ \A i \in 1..Len(flights) :
               DeliveryFails(i) =>
                   /\ pc' = pc
                   /\ Len(flights') = Len(flights)
                   /\ \A j \in (1..Len(flights)) \ {i} : flights'[j] = flights[j]
          /\ \A i \in 1..Len(flights) :
               (ResumeReminder(i) /\ flights[i].key \in KeysOf(GetList(reminders, flights[i].hashed_user_id)))
                   => flights[i].key \in SentKeys'
          /\ ReminderBatchDone =>
               \A i \in 1..Len(flights) :
                   flights[i].stage = "ok" =>
                       /\ Count(ghost.delivered, flights[i].key) >= 1
                       /\ \A r \in Items(reminders) : r.key = flights[i].key => r.sent]_vars

\* in one batch the first delivery failed and the second one succeeded and
\* left its reminder marked
C8_Witness ==
    /\ pc = "reminders"
    /\ Len(flights) = 2
    /\ flights[1].stage = "failed"
    /\ flights[2].stage = "ok"
    /\ flights[1].key \in KeysOf(GetList(reminders, flights[1].hashed_user_id)) \ SentKeys
    /\ flights[2].key \in SentKeys

\* C9: an item is delivered at most once more than the process has crashed:
\* after a crash between the scan and the mark, the sweeps of the restarted
\* process deliver the item at most one more time.
C9_AtMostOneDuplicate ==
    \A k \in DOMAIN ghost.delivered : ghost.delivered[k] <= 1 + ghost.crashes

\* after one crash an item has been delivered a second time and is marked, and
\* the sweep that delivered it has ended
C9_Witness ==
    /\ ghost.crashes = 1
    /\ pc = "idle"
    /\ \E k \in DOMAIN ghost.delivered :
          /\ ghost.delivered[k] = 2
          /\ k \in SentKeys \cup FlaggedTaskKeys

\* the calls of _save_data in SpecSave, and what a call does
NonForcedSave == (nextKey <= MaxKeys /\ AddTask("u1", "a", None_)) \/ ClearAllTasks("u1")
Elapsed == now - last_save >= DATABASE_SAVE_DEBOUNCE
Written ==
    /\ file' = <<EncryptData(JsonDumps(DocumentNext))>>
    /\ last_save' = now
    /\ save_pending' = FALSE
Deferred ==
    /\ file' = file
    /\ last_save' = last_save
    /\ save_pending' = TRUE

\* no successful write of this process lies less than the debounce interval back
NoRecentWrite == file = << >> \/ Elapsed

----------------------------------------------------------------------------
(* C11: after any repository or command operation returns, the file content *)
(* equals the in-memory Document or the pending-save flag is set: the       *)
(* Document is never changed without a save performed or flagged pending.   *)
(* A missing file reads as the empty Document.                              *)

C11_SavedOrPending == save_pending \/ LoadData = Document

----------------------------------------------------------------------------
(* C12: when set_deadline acknowledges success, the new deadline and the    *)
(* reset deadline-reminder flag have been written to the file, however      *)
(* recently the previous save happened: after the step the file holds the   *)
(* Document with the edited task.                                           *)

C12_DeadlineEditWritten ==
    [][\A id \in ItemIds :
          (SetDeadline("u1", id, CrashDeadline) /\ last'.ret = TRUE)
              => file' = <<EncryptData(JsonDumps(DocumentNext))>>]_vars

----------------------------------------------------------------------------
(* C13: remove_task(user, id) on a list of N tasks: if a task with that id  *)
(* exists it returns true, removes exactly that task, keeps the remaining   *)
(* tasks in their previous relative order with all other fields unchanged   *)
(* and renumbers them 1..N-1; if no task has that id it returns false and   *)
(* leaves the list unchanged.  No other owner's list changes.               *)

\* the list ts without its i-th task, ids 1..N-1, every other field as it was
WithoutTask(ts, i) ==
    [j \in 1..(Len(ts) - 1) |-> [ts[IF j < i THEN j ELSE j + 1] EXCEPT !.id = j]]

RemoveTaskOutcome(u, task_id) ==
    LET h  == HashUserId(u)
        ts == GetList(tasks, h)
        m  == {i \in 1..Len(ts) : ts[i].id = task_id}
    IN /\ \A h2 \in Pseudonyms \ {h} : GetList(tasks', h2) = GetList(tasks, h2)
       /\ IF m # {}
          THEN /\ last'.ret = TRUE
               /\ Cardinality(m) = 1
               /\ GetList(tasks', h) = WithoutTask(ts, CHOOSE i \in m : TRUE)
          ELSE /\ last'.ret = FALSE
               /\ tasks' = tasks

C13_RemoveTask ==
    [][\A u \in Users, id \in TaskIds : RemoveTask(u, id) => RemoveTaskOutcome(u, id)]_vars

\* the middle task of three was removed
C13_Witness ==
    /\ last = [op |-> "remove_task", ret |-> TRUE]
    /\ \E h \in DOMAIN tasks :
          /\ Len(tasks[h]) = 2
          /\ tasks[h][2].key = tasks[h][1].key + 2
          /\ tasks[h][2].completed

----------------------------------------------------------------------------
(* C14: complete_task (uncomplete_task) returns true and flips the          *)
(* completed flag only when a task with the given id exists and is          *)
(* currently uncompleted (completed); when the task does not exist or is    *)
(* already in the target state it returns false and changes no task field.  *)

FlipOutcome(u, task_id, from) ==
    LET h  == HashUserId(u)
        ts == GetList(tasks, h)
        m  == {i \in 1..Len(ts) : ts[i].id = task_id /\ ts[i].completed = from}
    IN IF m # {}
       THEN /\ last'.ret = TRUE
            /\ tasks' = Put(tasks, h, [ts EXCEPT ![CHOOSE i \in m : TRUE].completed = ~from])
       ELSE /\ last'.ret = FALSE
            /\ tasks' = tasks

C14_CompleteUncomplete ==
    [][\A u \in Users, id \in TaskIds :
          /\ CompleteTask(u, id) => FlipOutcome(u, id, FALSE)
          /\ UncompleteTask(u, id) => FlipOutcome(u, id, TRUE)]_vars

\* a completion was declined for a task that is already completed
C14_Witness ==
    /\ last = [op |-> "complete_task", ret |-> FALSE]
    /\ \E t \in Items(tasks) : t.completed
    /\ \E t \in Items(tasks) : ~t.completed

----------------------------------------------------------------------------
(* C15: clear_all_tasks(user) returns the number of tasks the owner held,   *)
(* leaves the owner with an empty task list (a following get_tasks returns  *)
(* no task) and with no identity-mapping entry, and leaves the owner's      *)
(* reminder list unchanged.                                                 *)

C15_ClearAllTasks ==
    [][ClearAllTasks("u1") =>
          LET h == HashUserId("u1")
          IN /\ last'.ret = Len(GetList(tasks, h))
             /\ GetList(tasks', h) = << >>
             /\ CacheAfterGet(h)'[h] = << >>
             /\ h \notin DOMAIN user_mapping'
             /\ reminders' = reminders]_vars

\* two tasks were cleared while the owner holds a reminder
C15_Witness ==
    /\ last.op = "clear_all_tasks"
    /\ last.ret = 2
    /\ GetList(tasks, HashUserId("u1")) = << >>
    /\ Len(GetList(reminders, HashUserId("u1"))) = 1
    /\ HashUserId("u1") \notin DOMAIN user_mapping

----------------------------------------------------------------------------
(* C16: clear_completed_tasks(user) returns the number of tasks that were   *)
(* completed, removes exactly those, keeps every uncompleted task in its    *)
(* previous relative order renumbered 1..M, and does not touch the identity *)
(* mapping or the reminders.                                                *)

C16_ClearCompleted ==
    [][ClearCompletedTasks("u1") =>
          LET h   == HashUserId("u1")
              ts  == GetList(tasks, h)
              ts2 == GetList(tasks', h)
              Uncompleted(t) == ~t.completed
              kept == SelectSeq(ts, Uncompleted)
          IN /\ last'.ret = Cardinality({i \in 1..Len(ts) : ts[i].completed})
             /\ Len(ts2) = Len(kept)
             /\ \A j \in 1..Len(kept) : ts2[j] = [kept[j] EXCEPT !.id = j]
             /\ user_mapping' = user_mapping
             /\ reminders' = reminders]_vars

\* the first of three tasks was completed and cleared
C16_Witness ==
    /\ last.op = "clear_completed_tasks"
    /\ last.ret = 1
    /\ LET ts == GetList(tasks, HashUserId("u1"))
       IN /\ Len(ts) = 2
          /\ ts[1].key = 2
          /\ ts[1].id = 1
          /\ ts[2].id = 2

----------------------------------------------------------------------------
(* C18: for one owner, after every operation in any sequence of             *)
(* add_reminder, delete_reminder, clear_reminders and mark_reminder_sent,   *)
(* the ids of the owner's N stored reminders are exactly 1..N, and this     *)
(* numbering is independent of the owner's task ids: no task operation      *)
(* changes the reminders and no reminder operation changes the tasks.       *)

TaskOperations ==
    {"add_task", "complete_task", "remove_task", "clear_completed_tasks",
     "clear_all_tasks", "get_tasks"}
ReminderOperations ==
    {"add_reminder", "delete_reminder", "clear_reminders", "mark_reminder_sent"}

C18_ReminderIds ==
    /\ [](\A h \in DOMAIN reminders : IdsDense(reminders[h]))
    /\ [][/\ last'.op \in TaskOperations => reminders' = reminders
          /\ last'.op \in ReminderOperations => tasks' = tasks]_vars

\* a reminder was deleted and the one left was renumbered, beside a task
C18_Witness ==
    /\ last = [op |-> "delete_reminder", ret |-> TRUE]
    /\ Len(GetList(tasks, HashUserId("u1"))) = 1
    /\ LET rs == GetList(reminders, HashUserId("u1"))
       IN /\ Len(rs) = 1
          /\ rs[1].key = 3
          /\ rs[1].id = 1

----------------------------------------------------------------------------
(* C17: add_reminder returns false exactly when the owner already holds     *)
(* MAX_REMINDERS_PER_USER (20) reminders and true otherwise; in every       *)
(* reachable state no owner's reminder list is longer than that maximum.    *)

C17_ReminderLimit ==
    /\ [](\A h \in DOMAIN reminders : Len(reminders[h]) <= MAX_REMINDERS_PER_USER)
    /\ [][AddReminder("u1", "m", CrashReminderTime) =>
             LET rs == GetList(reminders, HashUserId("u1"))
             IN /\ last'.ret = (Len(rs) # MAX_REMINDERS_PER_USER)
                /\ last'.ret => Len(GetList(reminders', HashUserId("u1"))) = Len(rs) + 1
                /\ ~last'.ret => GetList(reminders', HashUserId("u1")) = rs]_vars

\* an add was declined at the limit
C17_Witness ==
    /\ last = [op |-> "add_reminder", ret |-> FALSE]
    /\ Len(GetList(reminders, HashUserId("u1"))) = MAX_REMINDERS_PER_USER

----------------------------------------------------------------------------
(* C19: when a scanned due item has a null identifier because the owner's   *)
(* identity-mapping entry is missing, the sweep skips that item without     *)
(* raising, and every other due item of the same sweep that has an          *)
(* identifier is still delivered: the sweep starts a delivery for exactly   *)
(* the due items that have an identifier, and no delivery is ever started   *)
(* for an item without one.                                                 *)

FlightKeys(stage) == {flights[j].key : j \in {k \in 1..Len(flights) : flights[k].stage = stage}}

C19_NullIdSkipped ==
    /\ [](\A j \in 1..Len(flights) : flights[j].user_id # NoUser)
    /\ [][ReminderChecker =>
             /\ pc' \in {"reminders", "idle"}
             /\ \A i \in 1..Len(due') :
                   IF HasUserId(due'[i])
                   THEN pc' = "reminders" /\ due'[i].key \in FlightKeys("send")'
                   ELSE due'[i].key \notin KeysOf(flights')]_vars

\* an item without identifier was skipped and another item of the same sweep
\* was delivered and marked
C19_Witness ==
    /\ pc = "reminders"
    /\ \E i \in 1..Len(due) : LacksUserId(due[i])
    /\ \E i \in 1..Len(due) : HasUserId(due[i]) /\ due[i].key \in FlightKeys("ok")

----------------------------------------------------------------------------
(* C20: during a sweep the deliveries of the due items run concurrently but *)
(* bounded: at no time are more than MAX_CONCURRENT_REMINDERS deliveries in *)
(* flight, a delivery being in flight from the start of its coroutine until *)
(* the coroutine has ended.                                                 *)

InFlight == {j \in 1..Len(flights) : ~Settled(flights[j])}

C20_BoundedConcurrency == Cardinality(InFlight) <= MAX_CONCURRENT_REMINDERS

----------------------------------------------------------------------------
(* C29: in every reachable state, including interleavings where the owner   *)
(* runs delete_reminder or clear_reminders while a delivery of the sweep is *)
(* suspended on I/O, a stored reminder has sent == true only if a           *)
(* notification for that very reminder was successfully delivered.          *)

C29_SentOnlyIfDelivered ==
    \A r \in Items(reminders) : r.sent => Count(ghost.delivered, r.key) >= 1

----------------------------------------------------------------------------
(* C30: in every reachable state, including interleavings where the owner   *)
(* runs remove_task or clear_completed_tasks while a deadline delivery is   *)
(* suspended on I/O, a stored task has its deadline-reminder flag set only  *)
(* if a deadline notification for that very task was successfully           *)
(* delivered.                                                               *)

C30_FlaggedOnlyIfDelivered ==
    \A t \in Items(tasks) : t.reminder_sent => Count(ghost.delivered, t.key) >= 1

----------------------------------------------------------------------------
(* C21: user isolation.  Every repository operation called with user A's    *)
(* identifier (add, complete, uncomplete, remove, clear, deadline edit,     *)
(* reminder add / delete / clear) leaves the task list, the reminder list   *)
(* and the identity-mapping entry of every other user B unchanged, and A's  *)
(* read operations return only A's items.                                   *)

\* what the Document holds for a user
Holdings(ts, rs, um, u) ==
    LET h == HashUserId(u)
    IN [has_tasks |-> h \in DOMAIN ts, tasks |-> GetList(ts, h),
        has_reminders |-> h \in DOMAIN rs, reminders |-> GetList(rs, h),
        mapping |-> IF h \in DOMAIN um THEN <<um[h]>> ELSE << >>]

OperationOf(u) ==
    \/ AddTask(u, "a", None_)
    \/ \E id \in ItemIds : CompleteTask(u, id) \/ UncompleteTask(u, id) \/ RemoveTask(u, id)
    \/ ClearCompletedTasks(u)
    \/ ClearAllTasks(u)
    \/ \E id \in ItemIds : SetDeadline(u, id, CrashDeadline)
    \/ GetTasks(u)
    \/ AddReminder(u, "m", CrashReminderTime)
    \/ \E id \in ItemIds : DeleteReminder(u, id)
    \/ ClearReminders(u)
    \/ GetReminders(u)

\* the lists get_tasks(u) and get_reminders(u) return
GetTasksResult(u) == CacheAfterGet(HashUserId(u))[HashUserId(u)]
GetRemindersResult(u) == GetList(reminders, HashUserId(u))

C21_UserIsolation ==
    /\ [][\A a \in Users : OperationOf(a) =>
             \A b \in Users \ {a} :
                 Holdings(tasks', reminders', user_mapping', b)
                     = Holdings(tasks, reminders, user_mapping, b)]_vars
    /\ [](\A a \in Users : \A b \in Users \ {a} :
             /\ KeysOf(GetTasksResult(a)) \cap KeysOf(GetList(tasks, HashUserId(b))) = {}
             /\ KeysOf(GetTasksResult(a)) \subseteq KeysOf(GetList(tasks, HashUserId(a)))
             /\ KeysOf(GetRemindersResult(a)) \cap KeysOf(GetList(reminders, HashUserId(b))) = {}
             /\ KeysOf(GetRemindersResult(a)) \subseteq KeysOf(GetList(reminders, HashUserId(a))))

\* u1 cleared their tasks while u2 holds a task and its mapping entry
C21_Witness ==
    /\ HashUserId("u1") \notin DOMAIN tasks
    /\ HashUserId("u1") \notin DOMAIN user_mapping
    /\ HashUserId("u2") \in DOMAIN user_mapping
    /\ Len(GetList(tasks, HashUserId("u2"))) = 1
    /\ Len(GetList(reminders, HashUserId("u1"))) = 1

----------------------------------------------------------------------------
(* C23: loading fails soft: when the file is missing, empty, unreadable,    *)
(* undecryptable or not valid JSON, the store starts with an empty Document *)
(* (plus empty user_mapping and reminders) and raises nothing.              *)

\* a start of the process, with either setting
Starts == ghost'.crashes = ghost.crashes + 1

\* the file as the starting process finds it: its setting is fernet'
FileMissing == file = << >>
FileBlank == file = <<BlankText>>
FileUnreadable == file = <<Unreadable>>
FileGarbage == file = <<GarbageText>>
FileIsToken == file # << >> /\ file[1][1] = "gAAAAA"
FileIsPlainJson == file # << >> /\ file[1][1] = "json"

\* Fernet.decrypt raises for the content under the new setting
Undecryptable == fernet' /\ file # << >> /\ ~FileUnreadable /\ ~FileIsToken
\* json.loads raises for what _decrypt_data returned
NotValidJson == FileGarbage \/ (FileIsToken /\ ~fernet')

StartedEmpty ==
    /\ DocumentNext = EmptyDocument
    /\ cache' = << >>
    /\ pc' = "idle"

C23_FailsSoft ==
    [][(Starts /\ (FileMissing \/ FileBlank \/ FileUnreadable \/ Undecryptable \/ NotValidJson))
          => StartedEmpty]_vars

\* C23 as the code has it: missing, empty, unreadable, or not valid JSON
\* after _decrypt_data gives the empty Document; content that cannot be
\* decrypted is used as it stands, so a plaintext JSON file is loaded by a
\* process with encryption enabled.
C23_FailsSoftUnlessJson ==
    [][Starts =>
          /\ (FileMissing \/ FileBlank \/ FileUnreadable \/ NotValidJson) => StartedEmpty
          /\ FileIsPlainJson => DocumentNext = file[1][2]
          /\ (FileIsToken /\ fernet') => DocumentNext = file[1][2][2]
          /\ pc' = "idle" /\ cache' = << >>]_vars

\* the process started on a damaged file and holds nothing of what it had
C23_Witness ==
    /\ ghost.crashes = 1
    /\ last = NoCall
    /\ file = <<GarbageText>>
    /\ Document = EmptyDocument
    /\ nextKey > 1

----------------------------------------------------------------------------
(* C24: round trip: for every non-empty Document, a performed save followed *)
(* by a fresh load yields a Document equal to the one saved (same owners,   *)
(* tasks, reminders, flags and identity mapping), with encryption enabled   *)
(* or disabled.                                                             *)

\* the file holds what a performed save of the Document writes
FileHolds(doc) ==
    /\ file # << >>
    /\ file[1][1] = EncryptData(JsonDumps(doc))[1]
    /\ file[1] = EncryptData(JsonDumps(doc))

\* a repository call that ended in a performed save
PerformedSave ==
    /\ last'.op \in {"force_save", "add_task", "add_reminder", "complete_task"}
    /\ ~save_pending'
    /\ FileHolds(Document)'

----------------------------------------------------------------------------
(* C26: for every non-negative integer N and unit in minute(s), hour(s),    *)
(* day(s), week(s), parse_deadline("in N unit", now) and                    *)
(* parse_reminder_time("in N unit", now) both equal now + N times that      *)
(* unit.  N ranges over Amounts; an N whose result lies beyond the last     *)
(* datetime (year 9999) is outside the instants of this module.             *)

UnitLength(unit) ==
    IF unit \in {"minute", "minutes"} THEN 60
    ELSE IF unit \in {"hour", "hours"} THEN 60 * 60
    ELSE IF unit \in {"day", "days"} THEN 24 * 60 * 60
    ELSE 7 * 24 * 60 * 60

ParserCalled == last.op \in {"_parse_deadline", "_parse_reminder_time"}

\* the instant a successful call returned
ParsedInstant ==
    IF last.op = "_parse_deadline"
    THEN FromIsoFormat(last.ret.result.value[1])
    ELSE last.ret.result.value[1]

RelativeCall ==
    /\ ParserCalled
    /\ last.ret.text.shape = "in"
    /\ last.ret.text.amount # << >>
    /\ last.ret.text.unit \in {"minute", "minutes", "hour", "hours",
                               "day", "days", "week", "weeks"}

----------------------------------------------------------------------------
(* C27: for a time-only input HH:MM with a valid hour and minute, both      *)
(* parsers return that time on today's date when it has not yet passed and  *)
(* on tomorrow's date otherwise, so the result is strictly after now and at *)
(* most 24 hours after now.                                                 *)

TimeCall ==
    /\ ParserCalled
    /\ last.ret.text.shape = "time"
    /\ last.ret.text.hour \in 0..23
    /\ last.ret.text.minute \in 0..59

TodayAt(t, hour, minute) == t - (t % (24 * 60 * 60)) + hour * 60 * 60 + minute * 60

C27_TimeOnly ==
    TimeCall =>
        LET at == last.ret.at
            today == TodayAt(at, last.ret.text.hour, last.ret.text.minute)
        IN /\ last.ret.result.ok
           /\ ParsedInstant = IF today > at THEN today ELSE today + 24 * 60 * 60
           /\ ParsedInstant > at
           /\ ParsedInstant <= at + 24 * 60 * 60

\* "14:30" given to the deadline parser at 14:30:00 exactly: tomorrow
C27_Witness ==
    /\ last.op = "_parse_deadline"
    /\ last.ret.text = TimeText(14, 30)
    /\ last.ret.at = 14 * 60 * 60 + 30 * 60
    /\ last.ret.result = Parsed(IsoFormat(38 * 60 * 60 + 30 * 60))

----------------------------------------------------------------------------
(* C28: for a date-only input in any of the three accepted shapes           *)
(* (YYYY-MM-DD, MM/DD/YYYY, DD/MM/YYYY), parse_deadline returns 23:59 of    *)
(* that day and parse_reminder_time returns 09:00 of that day, independent  *)
(* of now.                                                                  *)

\* the text names a day in one of the three shapes
InAcceptedShape(text) ==
    /\ text.shape = "date"
    /\ \/ text.style = "dash" /\ ValidDate(text.a, text.b, text.c)
       \/ text.style = "slash" /\ ValidDate(text.c, text.a, text.b)
       \/ text.style = "slash" /\ ValidDate(text.c, text.b, text.a)

\* the day it names, <<year, month, day>>; MM/DD/YYYY is listed first
DayNamed(text) ==
    IF text.style = "dash" THEN <<text.a, text.b, text.c>>
    ELSE IF ValidDate(text.c, text.a, text.b) THEN <<text.c, text.a, text.b>>
    ELSE <<text.c, text.b, text.a>>

C28_DateOnly ==
    (ParserCalled /\ InAcceptedShape(last.ret.text)) =>
        LET day == DayNamed(last.ret.text)
        IN /\ last.ret.result.ok
           /\ ParsedInstant = IF last.op = "_parse_deadline"
                              THEN DateTime(day[1], day[2], day[3], 23, 59)
                              ELSE DateTime(day[1], day[2], day[3], 9, 0)

----------------------------------------------------------------------------
(* C25: for every input text that matches none of the grammar rules,        *)
(* parse_deadline and parse_reminder_time both fail with the                *)
(* InvalidTimeExpression error (the ValueError that the command layer       *)
(* catches and reports to the user) carrying the offending input; no other  *)
(* kind of failure escapes the parser.                                      *)

\* the units of rule 1 for each parser
UnitsAccepted(op) ==
    IF op = "_parse_deadline"
    THEN {"minute", "minutes", "hour", "hours", "day", "days", "week", "weeks"}
    ELSE {"minute", "minutes", "hour", "hours", "day", "days", "week", "weeks",
          "month", "months", "year", "years", "min", "mins", "hr", "hrs"}

MatchesNoRule(op, text) ==
    \/ text.shape = "word"
    \/ text.shape = "in" /\ (text.amount = << >> \/ text.unit \notin UnitsAccepted(op))
    \/ text.shape = "time" /\ ~(text.hour \in 0..23 /\ text.minute \in 0..59)
    \/ text.shape = "date" /\ ~InAcceptedShape(text)

C25_InvalidTimeExpression ==
    (ParserCalled /\ MatchesNoRule(last.op, last.ret.text)) =>
        last.ret.result = Raised("ValueError", TRUE)

----------------------------------------------------------------------------
(* C22: every reminder stored through the remindme command has a fire time  *)
(* strictly after the time of the command and no more than 365 days after   *)
(* it; a parsed time that is not after now, or more than 365 days ahead, is *)
(* declined and stores nothing.  The command is one step: it does not await *)
(* between parsing the time and add_reminder.                               *)

YearAhead == 365 * 24 * 60 * 60

C22_ReminderWindow ==
    [][\A text \in RemindInputs :
          Remindme("u1", "m", text) =>
              LET r == ParseReminderTime(text)
                  rs == GetList(reminders, HashUserId("u1"))
                  stored == GetList(reminders', HashUserId("u1"))
              IN /\ stored # rs =>
                       /\ Len(stored) = Len(rs) + 1
                       /\ FromIsoFormat(stored[Len(stored)].reminder_time) > now
                       /\ FromIsoFormat(stored[Len(stored)].reminder_time) <= now + YearAhead
                 /\ (r.ok /\ (r.value[1] <= now \/ r.value[1] > now + YearAhead)) =>
                       /\ DocumentNext = Document
                       /\ last'.op = "remindme"]_vars

\* a reminder stored for exactly 365 days after the command, and a later
\* command for a time beyond that declined
C22_Witness ==
    /\ now > 0
    /\ last = [op |-> "remindme", ret |-> "far"]
    /\ Len(GetList(reminders, HashUserId("u1"))) = 1
    /\ \E r \in Items(reminders) : FromIsoFormat(r.reminder_time) = now + YearAhead

----------------------------------------------------------------------------
(* C31: a deadline edit re-arms the notification: after set_deadline        *)
(* succeeds for a task, its deadline-reminder flag stays false until a      *)
(* notification for the new deadline has been delivered, even when a        *)
(* delivery for the old deadline was in flight at the time of the edit.  In *)
(* SpecEdit the new deadline never comes inside the window, so no           *)
(* notification for it is ever delivered: every task that carries the new   *)
(* deadline has the flag false.                                             *)

C31_EditReArms ==
    \A t \in Items(tasks) : t.deadline = EditNewDeadline => ~t.reminder_sent

----------------------------------------------------------------------------
(* C32: in every state reachable through the repository operations from an  *)
(* empty store, each pseudonym that owns at least one stored task or one    *)
(* stored reminder has an identity-mapping entry, so the scans never return *)
(* a null identifier for an item created through add_task or add_reminder.  *)

Owners ==
    {h \in DOMAIN tasks : tasks[h] # << >>} \cup {h \in DOMAIN reminders : reminders[h] # << >>}

C32_OwnersMapped ==
    /\ Owners \subseteq DOMAIN user_mapping
    /\ \A i \in 1..Len(due) : due[i].user_id # NoUser

----------------------------------------------------------------------------
(* C37: a declined add leaves the state unchanged: when add_task or         *)
(* add_reminder returns false because the owner is at the maximum, the      *)
(* whole Document (every task list, every reminder list and the identity    *)
(* mapping) is the same as before the call.                                 *)

C37_DeclinedAddUnchanged ==
    [][((AddTask("u1", "a", None_) \/ AddReminder("u1", "m", CrashReminderTime))
           /\ last'.ret = FALSE)
          => DocumentNext = Document]_vars

----------------------------------------------------------------------------
(* C38: the read operations get_tasks, get_task, get_reminders,             *)
(* get_due_reminders and get_upcoming_deadlines leave the stored Document   *)
(* unchanged: the content that a following save writes is the same as it    *)
(* would have been without the read (no decrypted text is added to stored   *)
(* items).                                                                  *)

C38_ReadsLeaveDocument ==
    [][(GetTasks("u1") \/ GetReminders("u1") \/ ReminderChecker)
          => /\ DocumentNext = Document
             /\ JsonDumps(DocumentNext) = JsonDumps(Document)]_vars

----------------------------------------------------------------------------
(* C35: delivery confirmation is durable: once mark_reminder_sent or        *)
(* mark_deadline_reminder_sent has returned true for an item, a process     *)
(* restart (Document reloaded from the file) followed by a sweep does not   *)
(* deliver that item again.  A sweep delivers the stored items whose flag   *)
(* is false, so the flag that the mark set has to be in the Document the    *)
(* restarted process loads: an item that was flagged before the restart and *)
(* is stored after it is flagged after it.                                  *)

C35_ConfirmationDurable ==
    [][Starts =>
          /\ \A r \in Items(reminders') : r.key \in SentKeys => r.sent
          /\ \A t \in Items(tasks') : t.key \in FlaggedTaskKeys => t.reminder_sent]_vars

----------------------------------------------------------------------------
(* C39: cache coherence: in every reachable state, for each pseudonym       *)
(* present both in the task cache and in the Document, the cached task list *)
(* is the Document's task list (same content), so mutations made through    *)
(* the cache path (complete, set_deadline) and through the Document path    *)
(* (mark_deadline_reminder_sent, get_upcoming_deadlines) always see the     *)
(* same tasks.                                                              *)

C39_CacheCoherent ==
    \A h \in (DOMAIN cache) \cap (DOMAIN tasks) : cache[h] = tasks[h]

\* after a restart a command has filled the cache again, and a mark through
\* the Document has set the flag of a task that the cached list shows flagged
C39_Witness ==
    /\ ghost.crashes = 1
    /\ \E i \in 1..Len(flights) :
          LET h == flights[i].hashed_user_id
          IN /\ flights[i].stage = "ok"
             /\ h \in (DOMAIN cache) \cap (DOMAIN tasks)
             /\ \E j \in 1..Len(cache[h]) :
                   /\ cache[h][j].key = flights[i].key
                   /\ cache[h][j].reminder_sent
                   /\ cache[h][j].completed

----------------------------------------------------------------------------
(* C34: a deferred save is eventually performed: whenever the pending-save  *)
(* flag is set, the file is eventually rewritten with the current Document, *)
(* even if no further mutating operation is issued afterwards.              *)

\* _save_data is the only writer of the file and clears the flag when it
\* writes (database.py:113)
C34_DeferredSavePerformed == save_pending ~> ~save_pending

----------------------------------------------------------------------------
(* C33: liveness: if sweeps keep running and deliveries succeed, every      *)
(* reminder that stays stored (is not deleted by its owner) is eventually   *)
(* delivered to its owner after its fire time has passed.                   *)

ReminderStored(k) == \E r \in Items(reminders) : r.key = k
DeliveredOnce(k) == Count(ghost.delivered, k) >= 1

C33_StoredReminderDelivered ==
    \A k \in 1..MaxKeys : (<>[]ReminderStored(k)) => <>DeliveredOnce(k)

----------------------------------------------------------------------------
(* C40: liveness: if sweeps keep running and deliveries succeed, every task *)
(* that has a deadline set and stays stored and uncompleted eventually gets *)
(* a deadline notification delivered to its owner.                          *)

TaskAwaitingDeadline(k) ==
    \E t \in Items(tasks) : t.key = k /\ t.deadline # None_ /\ ~t.completed

C40_DeadlineNotified ==
    \A k \in 1..MaxKeys : (<>[]TaskAwaitingDeadline(k)) => <>DeliveredOnce(k)

----------------------------------------------------------------------------
(* C36: in a run without crash, under any interleaving of sweeps,           *)
(* deliveries and user commands, no reminder is successfully delivered more *)
(* than once, and no task receives more than one deadline notification for  *)
(* the same deadline value.                                                 *)

\* deliveries are counted per item; every deadline of the specification it
\* is checked under has the same value, OnceDeadline
C36_DeliveredAtMostOnce ==
    ghost.crashes = 0 => \A k \in DOMAIN ghost.delivered : ghost.delivered[k] <= 1

\* C36 as amended: a reminder is delivered at most once, and a task gets at
\* most one deadline notification per arming.  A notification is started only
\* for a stored task whose flag is false and only when the coroutines of the
\* batch before have ended; the mark after the delivery sets the flag of the
\* task if it is still stored; and the flag of a stored task is taken back only
\* by a set_deadline that succeeds for it, whatever value it sets.
StoredTaskKeys == {t.key : t \in Items(tasks)}
DeadlineFlightKeys ==
    {flights[j].key : j \in {i \in 1..Len(flights) : flights[i].kind = "deadline"}}
NotificationsStarted == pc # "deadlines" /\ pc' = "deadlines"

C36_OncePerArming ==
    [][/\ \A i \in 1..Len(flights) :
             (flights[i].kind = "reminder" /\ Deliver(i))
                 => Count(ghost.delivered, flights[i].key) = 0
       /\ NotificationsStarted
             => /\ AllSettled
                /\ DeadlineFlightKeys' \subseteq StoredTaskKeys \ FlaggedTaskKeys
       /\ \A i \in 1..Len(flights) :
             (ResumeDeadline(i) /\ flights[i].key \in StoredTaskKeys')
                 => flights[i].key \in FlaggedTaskKeys'
       /\ \A k \in FlaggedTaskKeys :
             (k \in StoredTaskKeys' \ FlaggedTaskKeys')
                 => \E id \in ItemIds : SetDeadline("u1", id, OnceDeadline)]_vars

\* a task notified twice for the deadline value it has had all along, its flag
\* set by the second mark, and a reminder delivered and marked
C36_Witness ==
    /\ \E t \in Items(tasks) : Count(ghost.delivered, t.key) >= 2 /\ t.reminder_sent
    /\ \E r \in Items(reminders) : Count(ghost.delivered, r.key) = 1 /\ r.sent

====
